---- MODULE Spec2Model ----
(***************************************************************************)
(* Model of the milhouse context-memory engine: ContextStore (store.ts),   *)
(* ConversationIndexer (indexer.ts) and the tool dispatcher (index.ts).    *)
(* JavaScript runs one callback at a time; an async method is cut at the   *)
(* awaits where it touches shared state (the table, the indexer's fields,  *)
(* the disk).  Each such piece is one action.                              *)
(***************************************************************************)
EXTENDS Integers, Sequences, FiniteSets, TLC

\* bounds of the model
MaxClock == 2
MaxEntries == 3

\* a JavaScript `undefined` argument or field
Undefined == "undefined"

\* the in-flight update_task_status calls
Updaters == {"u1", "u2"}

\* argument objects of the create_task tool (priority and tags are optional)
TaskArgs ==
  { [title |-> "A", content |-> "x", priority |-> "high",
     tags |-> <<"api">>, projectPath |-> "/p"],
    [title |-> "B", content |-> "y", priority |-> Undefined,
     tags |-> Undefined, projectPath |-> Undefined] }

\* argument objects of the store_document tool
DocArgs ==
  { [title |-> "API notes", content |-> "Use POST /v1/x",
     tags |-> <<"api">>, projectPath |-> Undefined],
    [title |-> "N", content |-> "n", tags |-> Undefined, projectPath |-> "/p"] }

\* argument objects of the store_decision tool
DecisionArgs == { [title |-> "D", content |-> "z", tags |-> Undefined] }

Statuses == {"pending", "in_progress", "completed"}

\* the in-flight index_project / start_watching tool calls
Jobs == {"j1"}

\* transcript files <project dir>/conversations/<name>.json of the project
DirOrder == <<"f1", "f2">>
Files == {DirOrder[i] : i \in 1..Len(DirOrder)}

\* the project path the tools are called with
ProjectPath == "/p"

\* identities of chokidar watcher objects; 0 is `null`
WatcherIds == {1, 2}

VARIABLES
  table,        \* ContextStore.table: the rows of the LanceDB table, in insertion order
  clock,        \* Date.now()
  upd,          \* per in-flight updateTaskStatus call: its position and its locals
  disk,         \* per transcript file: "absent", "ok" (parseable) or "bad"
  indexedFiles, \* ConversationIndexer.indexedFiles
  watcher,      \* ConversationIndexer.watcher: a watcher identity, or 0 for null
  openW,        \* the chokidar watchers that have been created and not closed
  events,       \* add/change events emitted by open watchers, not yet delivered
  cbs,          \* watch callbacks past their readFile, about to store
  job,          \* per in-flight index_project / start_watching call: position, locals
  isWatching,   \* the dispatcher's isWatching flag
  db,           \* ContextStore.table (the handle) and initialize()'s position
  call,         \* the in-flight call of a store method or of a single-await tool
  OPENAI_API_KEY, \* process.env.OPENAI_API_KEY is set
  ext           \* per caller of generateEmbedding / generateSummary: its position

storeVars == <<table, clock, upd>>
indexerVars == <<disk, indexedFiles, watcher, openW, events, cbs, job, isWatching>>
extVars == <<OPENAI_API_KEY, ext>>
apiVars == <<db, call, extVars>>
vars == <<table, clock, upd, disk, indexedFiles, watcher, openW, events, cbs,
          job, isWatching, db, call, OPENAI_API_KEY, ext>>

----------------------------------------------------------------------------
\* ContextStore

\* (args?.x as T) || dflt
OrDefault(v, dflt) == IF v = Undefined THEN dflt ELSE v

\* String.prototype.substring(0, n)
Min(a, b) == IF a <= b THEN a ELSE b
substring(text, n) == SubSeq(text, 1, Min(n, Len(text)))

\* the seed record of initialize()
SeedEntry(now) ==
  [id |-> "init", type |-> "decision", title |-> "Initial entry",
   content |-> "Database initialized", projectPath |-> "", filePath |-> "",
   tags |-> <<"system">>, timestamp |-> now,
   status |-> Undefined, priority |-> Undefined,
   vector |-> [type |-> "array", length |-> 1536, by |-> "fill(0)"]]

\* table.add([...]): append the rows
TableAdd(tbl, e) == Append(tbl, e)

\* the filter text handed to table.delete: `id = '${taskId}'`, the id put
\* between the quotes as it is
Predicate(id) == "id = '" \o id \o "'"

\* str begins with part
StartsWith(str, part) == Len(str) >= Len(part) /\ SubSeq(str, 1, Len(part)) = part

\* str without its first n characters
Drop(str, n) == SubSeq(str, n + 1, Len(str))

\* the string literal whose opening quote has been read: it runs to the next
\* quote that is not doubled, and a doubled quote stands for one quote
RECURSIVE Literal(_, _, _)
Literal(str, i, acc) ==
  IF i > Len(str) THEN [ok |-> FALSE, lit |-> acc, rest |-> ""]
  ELSE IF SubSeq(str, i, i) # "'" THEN Literal(str, i + 1, acc \o SubSeq(str, i, i))
  ELSE IF i < Len(str) /\ SubSeq(str, i + 1, i + 1) = "'"
       THEN Literal(str, i + 2, acc \o "'")
       ELSE [ok |-> TRUE, lit |-> acc, rest |-> Drop(str, i)]

\* the filter as the table reads it: comparisons of the id column with a
\* literal joined by OR, or a text that is no filter, which the table rejects
NoFilter == [error |-> TRUE, terms |-> <<>>]

RECURSIVE Where(_)
Where(predicate) ==
  LET op == IF StartsWith(predicate, "id = '") THEN "="
            ELSE IF StartsWith(predicate, "id != '") THEN "!=" ELSE ""
      l == Literal(Drop(predicate, IF op = "=" THEN 6 ELSE 7), 1, "")
      term == [op |-> op, lit |-> l.lit]
      more == Where(Drop(l.rest, 4))
  IN IF op = "" \/ ~l.ok THEN NoFilter
     ELSE IF l.rest = "" THEN [error |-> FALSE, terms |-> <<term>>]
     ELSE IF StartsWith(l.rest, " OR ") /\ ~more.error
     THEN [error |-> FALSE, terms |-> <<term>> \o more.terms]
     ELSE NoFilter

\* row e satisfies one of the comparisons
Satisfies(e, terms) ==
  \E k \in 1..Len(terms) :
    IF terms[k].op = "=" THEN e.id = terms[k].lit ELSE e.id # terms[k].lit

\* a delete whose predicate matches no row
TableDeleteNone(tbl, id) == tbl

\* table.delete(`id = '...'`): remove every row that satisfies the filter; a
\* text that is no filter is rejected and nothing is removed
TableDelete(tbl, id) ==
  LET where == Where(Predicate(id))
  IN IF where.error THEN tbl
     ELSE SelectSeq(tbl, LAMBDA e : ~Satisfies(e, where.terms))

\* { ...entry, vector }
WithVector(entry, vector) ==
  [f \in DOMAIN entry \cup {"vector"} |->
     IF f = "vector" THEN vector ELSE entry[f]]

\* an insert that replaces the rows carrying the same id
addEntryUpsert(tbl, entry, vector) ==
  TableAdd(TableDelete(tbl, entry.id), WithVector(entry, vector))

\* addEntry: the record handed over is stored, with the vector that
\* generateEmbedding returned, as one new row
addEntry(tbl, entry, vector) == TableAdd(tbl, WithVector(entry, vector))

\* the `undefined` that Array.prototype.find returns when no row matches
NoEntry ==
  [id |-> Undefined, type |-> Undefined, title |-> Undefined,
   content |-> Undefined, projectPath |-> Undefined, filePath |-> Undefined,
   tags |-> Undefined, timestamp |-> 0,
   status |-> Undefined, priority |-> Undefined,
   vector |-> [type |-> Undefined, length |-> 0, by |-> Undefined]]

\* allEntries.find(pred): the first row in table order, or undefined
RECURSIVE FindFirst(_, _, _)
FindFirst(tbl, id, type) ==
  IF tbl = <<>> THEN NoEntry
  ELSE IF Head(tbl).id = id /\ Head(tbl).type = type THEN Head(tbl)
  ELSE FindFirst(Tail(tbl), id, type)

\* Array.prototype.sort((a, b) => b.timestamp - a.timestamp): stable, descending
RECURSIVE InsertDesc(_, _)
InsertDesc(sorted, e) ==
  IF sorted = <<>> THEN <<e>>
  ELSE IF Head(sorted).timestamp >= e.timestamp
       THEN <<Head(sorted)>> \o InsertDesc(Tail(sorted), e)
       ELSE <<e>> \o sorted

RECURSIVE SortDesc(_)
SortDesc(s) ==
  IF s = <<>> THEN <<>>
  ELSE InsertDesc(SortDesc(SubSeq(s, 1, Len(s) - 1)), s[Len(s)])

TaskView(t) ==
  [id |-> t.id, title |-> t.title, content |-> t.content,
   status |-> OrDefault(t.status, "pending"),
   priority |-> OrDefault(t.priority, "medium"),
   tags |-> OrDefault(t.tags, <<>>),
   timestamp |-> t.timestamp, projectPath |-> t.projectPath]

listTasks(tbl, projectPath, status) ==
  LET tasks == SelectSeq(tbl, LAMBDA e : e.type = "task")
      byProject == IF projectPath # Undefined /\ projectPath # ""
                   THEN SelectSeq(tasks, LAMBDA t : t.projectPath = projectPath)
                   ELSE tasks
      byStatus == IF status # Undefined
                  THEN SelectSeq(byProject, LAMBDA t : t.status = status)
                  ELSE byProject
      sorted == SortDesc(byStatus)
  IN [i \in 1..Len(sorted) |-> TaskView(sorted[i])]

DocView(d) ==
  [id |-> d.id, title |-> d.title, content |-> d.content,
   tags |-> OrDefault(d.tags, <<>>),
   timestamp |-> d.timestamp, projectPath |-> d.projectPath]

\* d.tags?.includes(tag)
Includes(tags, tag) ==
  tags # Undefined /\ \E i \in 1..Len(tags) : tags[i] = tag

\* a listDocuments that keeps the documents carrying every given tag
listDocumentsEvery(tbl, projectPath, tags) ==
  LET documents == SelectSeq(tbl, LAMBDA e : e.type = "document")
      byProject == IF projectPath # Undefined /\ projectPath # ""
                   THEN SelectSeq(documents, LAMBDA d : d.projectPath = projectPath)
                   ELSE documents
      byTags == IF tags # Undefined /\ Len(tags) > 0
                THEN SelectSeq(byProject, LAMBDA d :
                       \A i \in 1..Len(tags) : Includes(d.tags, tags[i]))
                ELSE byProject
      sorted == SortDesc(byTags)
  IN [i \in 1..Len(sorted) |-> DocView(sorted[i])]

listDocuments(tbl, projectPath, tags) ==
  LET documents == SelectSeq(tbl, LAMBDA e : e.type = "document")
      byProject == IF projectPath # Undefined /\ projectPath # ""
                   THEN SelectSeq(documents, LAMBDA d : d.projectPath = projectPath)
                   ELSE documents
      byTags == IF tags # Undefined /\ Len(tags) > 0
                THEN SelectSeq(byProject, LAMBDA d :
                       \E i \in 1..Len(tags) : Includes(d.tags, tags[i]))
                ELSE byProject
      sorted == SortDesc(byTags)
  IN [i \in 1..Len(sorted) |-> DocView(sorted[i])]

\* the null that getDocument returns
NoDoc ==
  [id |-> Undefined, title |-> Undefined, content |-> Undefined,
   tags |-> Undefined, timestamp |-> 0, projectPath |-> Undefined]

getDocument(tbl, docId) ==
  LET doc == FindFirst(tbl, docId, "document")
  IN IF doc = NoEntry THEN NoDoc ELSE DocView(doc)

\* `task-${Date.now()}`, `doc-${Date.now()}`, `decision-${Date.now()}`
TaskId(now) == "task-" \o ToString(now)
DocId(now) == "doc-" \o ToString(now)
DecisionId(now) == "decision-" \o ToString(now)

\* a createTask that leaves the status out of the row
TaskEntryNoStatus(title, content, priority, tags, projectPath, now) ==
  [id |-> TaskId(now), type |-> "task", title |-> title, content |-> content,
   projectPath |-> projectPath, filePath |-> Undefined, tags |-> tags,
   timestamp |-> now, status |-> Undefined, priority |-> priority]

TaskEntry(title, content, priority, tags, projectPath, now) ==
  [id |-> TaskId(now), type |-> "task", title |-> title, content |-> content,
   projectPath |-> projectPath, filePath |-> Undefined, tags |-> tags,
   timestamp |-> now, status |-> "pending", priority |-> priority]

DocumentEntry(title, content, tags, projectPath, now) ==
  [id |-> DocId(now), type |-> "document", title |-> title, content |-> content,
   projectPath |-> projectPath, filePath |-> Undefined, tags |-> tags,
   timestamp |-> now, status |-> Undefined, priority |-> Undefined]

\* storeCodeContext: the row for a source file (title is path.basename(filePath))
CodeId(filePath, now) == "code-" \o filePath \o "-" \o ToString(now)

CodeEntry(filePath, basename, content, projectPath, now) ==
  [id |-> CodeId(filePath, now), type |-> "code", title |-> basename,
   content |-> content, projectPath |-> projectPath, filePath |-> filePath,
   tags |-> <<>>, timestamp |-> now,
   status |-> Undefined, priority |-> Undefined]

DecisionEntry(title, content, tags, now) ==
  [id |-> DecisionId(now), type |-> "decision", title |-> title,
   content |-> content, projectPath |-> Undefined, filePath |-> Undefined,
   tags |-> tags, timestamp |-> now,
   status |-> Undefined, priority |-> Undefined]

----------------------------------------------------------------------------
\* the payload the CallTool handler returns: its try block's, or its catch block's
Ok(text) == [isError |-> FALSE, text |-> text]

\* a catch block that returns the message without flagging it
ErrUnflagged(message) == [isError |-> FALSE, text |-> "Error: " \o message]

Err(message) == [isError |-> TRUE, text |-> "Error: " \o message]

\* a tool call of the indexer that is not in flight; `stop` tells how the call
\* went through stopWatching ("none": not called, "noop": called with no
\* watcher to close, "close": called with one); `projectPath` is the path the
\* tool was called with, `projects` what fs.readdir(projectsDir) returned and
\* `dir` the project directory handed to indexProjectConversations, where the
\* call's resolution of the directory is followed
IdleJob ==
  [pc |-> "idle", tool |-> "", force |-> FALSE, files |-> <<>>, stop |-> "none",
   projectPath |-> ProjectPath, projects |-> <<>>, dir |-> ""]

IdleUpd == [pc |-> "idle", taskId |-> "", status |-> Undefined, task |-> NoEntry]

\* the store of a process whose main() has awaited store.initialize(): the
\* table handle is set and the 'context' table exists on disk
ReadyDb == [pc |-> "ready", exists |-> TRUE, found |-> TRUE]

\* no call in flight
IdleCall == [pc |-> "idle", name |-> "", error |-> "", payload |-> Ok("")]

\* a method that never looks at this.table
NeverThrowNotInitialized(d) == TRUE

\* `if (!this.table) throw new Error('Store not initialized')` passes
Initialized(d) == d.pc = "ready"

-----------------------------------------------------------------------------
\* EmbeddingProvider: the hash-based embedding

EMBEDDING_DIM == 1536

Lower == "abcdefghijklmnopqrstuvwxyz"
Upper == "ABCDEFGHIJKLMNOPQRSTUVWXYZ"
Digits == "0123456789"

\* the position (from 1) of character c in str, 0 when it is not there
RECURSIVE IndexOf(_, _)
IndexOf(c, str) ==
  IF str = "" THEN 0
  ELSE IF Head(str) = c THEN 1
  ELSE LET i == IndexOf(c, Tail(str)) IN IF i = 0 THEN 0 ELSE i + 1

\* String.prototype.toLowerCase, one character
ToLower(c) ==
  LET i == IndexOf(c, Upper) IN IF i = 0 THEN c ELSE SubSeq(Lower, i, i)

\* \w and \s of a regular expression without the unicode flag
IsWord(c) == IndexOf(c, Lower) > 0 \/ IndexOf(c, Upper) > 0
               \/ IndexOf(c, Digits) > 0 \/ c = "_"
IsSpace(c) == c \in {" ", "\n", "\t", "\r"}

\* text.toLowerCase().replace(/[^\w\s]/g, ''), by halves
RECURSIVE Strip(_)
Strip(text) ==
  IF text = "" THEN ""
  ELSE IF Len(text) = 1
  THEN LET c == ToLower(text) IN IF IsWord(c) \/ IsSpace(c) THEN c ELSE ""
  ELSE LET half == Len(text) \div 2
       IN Strip(SubSeq(text, 1, half)) \o Strip(SubSeq(text, half + 1, Len(text)))

\* the pieces of text between white-space characters, by halves: the last
\* piece of the first half and the first piece of the second are one piece.
\* String.prototype.split(/\s+/) gives the same pieces except that a run of
\* white space yields no empty piece in its middle.
RECURSIVE Split(_)
Split(text) ==
  IF Len(text) <= 1 THEN IF IsSpace(text) THEN <<"", "">> ELSE <<text>>
  ELSE LET half == Len(text) \div 2
           l == Split(SubSeq(text, 1, half))
           r == Split(SubSeq(text, half + 1, Len(text)))
       IN SubSeq(l, 1, Len(l) - 1) \o <<l[Len(l)] \o r[1]>> \o Tail(r)

\* every piece of the text, short ones included
WordsOfAnyLength(text) == SelectSeq(Split(Strip(text)), LAMBDA w : Len(w) > 0)

\* the words of generateSimpleEmbedding: .filter(w => w.length > 2)
Words(text) == SelectSeq(Split(Strip(text)), LAMBDA w : Len(w) > 2)

\* String.prototype.charCodeAt for the characters a word or a path is made of
CharCode(c) ==
  IF IndexOf(c, Lower) > 0 THEN 96 + IndexOf(c, Lower)
  ELSE IF IndexOf(c, Digits) > 0 THEN 47 + IndexOf(c, Digits)
  ELSE IF c = "/" THEN 47
  ELSE IF c = "." THEN 46
  ELSE IF c = "-" THEN 45
  ELSE 95

\* a 32-bit integer is kept as its two unsigned 16-bit halves
Half == 65536

\* hash * 31 + char wrapped to 32 bits
TimesStep(h, code) ==
  LET lo == h.lo * 31 + code
  IN [hi |-> (h.hi * 31 + lo \div Half) % Half, lo |-> lo % Half]

\* hash = ((hash << 5) - hash) + char; hash = hash & hash: the shift yields a
\* 32-bit integer, the subtraction and the addition are exact on numbers, and
\* hash & hash keeps the low 32 bits of the result (the borrow of the low half
\* is taken from the high half)
HashStep(h, code) ==
  LET shl == [hi |-> (h.hi * 32 + (h.lo * 32) \div Half) % Half,
              lo |-> (h.lo * 32) % Half]
      lo == shl.lo - h.lo + code
      hi == shl.hi - h.hi + lo \div Half
  IN [hi |-> hi % Half, lo |-> lo % Half]

RECURSIVE HashBits(_, _)
HashBits(str, h) ==
  IF str = "" THEN h ELSE HashBits(Tail(str), HashStep(h, CharCode(Head(str))))

\* the 32-bit pattern read as a signed integer
Signed(h) == IF h.hi >= Half \div 2 THEN (h.hi - Half) * Half + h.lo
             ELSE h.hi * Half + h.lo

\* hashString
hashString(str) == Signed(HashBits(str, [hi |-> 0, lo |-> 0]))

\* the bucket when the absolute value is taken in 32 bits, where the absolute
\* value of -2^31 is -2^31 and the remainder keeps the sign of the dividend
PositionInt32(hash) ==
  IF hash >= 0 THEN hash % EMBEDDING_DIM
  ELSE IF hash > (-2147483647) - 1
       THEN (EMBEDDING_DIM - (hash % EMBEDDING_DIM)) % EMBEDDING_DIM
       ELSE -((EMBEDDING_DIM - (hash % EMBEDDING_DIM)) % EMBEDDING_DIM)

\* Math.abs(hash) % EMBEDDING_DIM, computed on numbers: Math.abs(-2^31) is 2^31
Position(hash) ==
  IF hash >= 0 THEN hash % EMBEDDING_DIM
  ELSE (EMBEDDING_DIM - (hash % EMBEDDING_DIM)) % EMBEDDING_DIM

\* fractions, in lowest terms
RECURSIVE GCD(_, _)
GCD(a, b) == IF b = 0 THEN a ELSE GCD(b, a % b)
Frac(n, d) == LET g == GCD(n, d) IN <<n \div g, d \div g>>
FracAdd(x, y) == Frac(x[1] * y[2] + y[1] * x[2], x[2] * y[2])
FracMul(x, y) == Frac(x[1] * y[1], x[2] * y[2])

\* the sum of the fractions of a sequence
RECURSIVE FracSum(_)
FracSum(fs) == IF fs = <<>> THEN <<0, 1>> ELSE FracAdd(Head(fs), FracSum(Tail(fs)))

\* embedding[position] += 1 / (idx + 1) for every word: the non-zero entries of
\* the array before it is normalised, by position
Weights(words) ==
  LET pos(i) == Position(hashString(words[i]))
      used == {pos(i) : i \in 1..Len(words)}
      at(p) == SelectSeq([i \in 1..Len(words) |-> IF pos(i) = p THEN <<1, i>> ELSE <<0, 1>>],
                         LAMBDA x : TRUE)
  IN [p \in used |-> FracSum(at(p))]

\* a JavaScript value returned by the provider: an array of numbers (its
\* non-zero entries, each to be divided by the square root of norm2), a string,
\* null or undefined
JsValue(type, length, entries, norm2, str) ==
  [type |-> type, length |-> length, entries |-> entries, norm2 |-> norm2,
   str |-> str]
JsUndefined == JsValue("undefined", 0, <<>>, <<1, 1>>, "")
JsNull == JsValue("null", 0, <<>>, <<1, 1>>, "")
JsString(str) == JsValue("string", Len(str), <<>>, <<1, 1>>, str)

\* the entries of a function as a sequence of <<position, value>> pairs, by
\* increasing position
RECURSIVE Entries(_, _)
Entries(w, ps) ==
  IF ps = {} THEN <<>>
  ELSE LET p == CHOOSE q \in ps : \A r \in ps : q <= r
       IN <<<<p, w[p]>>>> \o Entries(w, ps \ {p})

\* generateSimpleEmbedding: new Array(EMBEDDING_DIM).fill(0), the weights added,
\* and every entry divided by the magnitude when the magnitude (the square
\* root of `sq`) is positive
generateSimpleEmbedding(text) ==
  LET w == Weights(Words(text))
      es == Entries(w, DOMAIN w)
      sq == FracSum([i \in 1..Len(es) |-> FracMul(es[i][2], es[i][2])])
  IN JsValue("array", EMBEDDING_DIM, es, IF sq[1] > 0 THEN sq ELSE <<1, 1>>, "")

\* what the embeddings endpoint does with a request: fetch rejects (network
\* error); a response that is not ok (401, 429, 500); an ok response whose body
\* is not JSON, is {"error": ...}, is {"data": []}, is {"data": [{}]}, is
\* {"data": [{"embedding": null}]}, or carries an embedding
EmbedReplies ==
  {"rejected", "not ok", "invalid json", "no data", "empty data",
   "no embedding", "null embedding", "embedding"}

\* the replies other than a well-formed embedding
EmbedFailures == EmbedReplies \ {"embedding"}

\* the vector the service returns
RemoteEmbedding == JsValue("array", 1536, <<<<0, <<1, 1>>>>>>, <<1, 1>>, "")

\* the replies on which control leaves the try block without returning:
\* fetch or response.json() rejects, response.ok is false, or
\* data.data[0].embedding throws a TypeError (data.data or data.data[0] is
\* undefined)
LeavesTry(reply) ==
  reply \in {"rejected", "not ok", "invalid json", "no data", "empty data"}

\* what generateEmbedding returns once the request has settled
EmbedResult(text, reply) ==
  IF LeavesTry(reply) THEN generateSimpleEmbedding(text)
  ELSE IF reply = "embedding" THEN RemoteEmbedding
  ELSE IF reply = "null embedding" THEN JsNull
  ELSE JsUndefined

\* the vector column of a stored row: the type and the length of the value
\* and where its numbers come from ("fill(0)": all zero; "simple":
\* generateSimpleEmbedding of the row's `${title}\n${content}`; "remote": what
\* the embeddings endpoint sent)
Column(type, length, by) == [type |-> type, length |-> length, by |-> by]

\* what generateEmbedding hands to addEntry in a process without a key
SimpleVector == Column("array", EMBEDDING_DIM, "simple")

\* what generateEmbedding hands to addEntry when the endpoint answers `reply`
RemoteVector(reply) ==
  IF LeavesTry(reply) THEN SimpleVector
  ELSE IF reply = "embedding"
  THEN Column(RemoteEmbedding.type, RemoteEmbedding.length, "remote")
  ELSE IF reply = "null embedding" THEN Column(JsNull.type, JsNull.length, "remote")
  ELSE Column(JsUndefined.type, JsUndefined.length, "remote")

\* the vectors addEntry can get from generateEmbedding in this process
Vectors ==
  IF OPENAI_API_KEY THEN {RemoteVector(reply) : reply \in EmbedReplies}
  ELSE {SimpleVector}

\* a row stored by a process without a key
Stored(entry) == WithVector(entry, SimpleVector)

-----------------------------------------------------------------------------
\* ContextStore: search, getStats, getProjectSummary

PreviewLen == 500
DecisionPreviewLen == 200
RecentCount == 5

\* the numbers of a row's vector
RowVector(e) ==
  IF e.vector.by = "fill(0)" THEN JsValue("array", e.vector.length, <<>>, <<1, 1>>, "")
  ELSE IF e.vector.by = "simple"
  THEN generateSimpleEmbedding(e.title \o "\n" \o e.content)
  ELSE RemoteEmbedding

\* the dot product of the two arrays before their division by the magnitudes
Dot(q, v) ==
  LET common == {i \in 1..Len(q.entries) :
                   \E k \in 1..Len(v.entries) : v.entries[k][1] = q.entries[i][1]}
      other(i) == CHOOSE k \in 1..Len(v.entries) : v.entries[k][1] = q.entries[i][1]
      prods == [i \in 1..Len(q.entries) |->
                  IF i \in common
                  THEN FracMul(q.entries[i][2], v.entries[other(i)][2])
                  ELSE <<0, 1>>]
  IN FracSum(prods)

\* how near the row vector v is to the query vector q. The squared L2 distance
\* of the two is |q|^2 + |v|^2 - 2 q.v, where |x|^2 is 1 for a normalised
\* vector and 0 for the zero vector: it is 2 - 2c with c the cosine of two
\* normalised vectors, c = 1/2 when exactly one of the two is the zero vector
\* and c = 1 when both are. The value is c squared (cosines are not negative:
\* no weight is), so a row is nearer exactly when the value is larger.
Nearness(q, v) ==
  IF v.entries = <<>> /\ q.entries = <<>> THEN <<1, 1>>
  ELSE IF v.entries = <<>> \/ q.entries = <<>> THEN <<1, 4>>
  ELSE LET d == Dot(q, v)
       IN FracMul(FracMul(d, d), <<q.norm2[2] * v.norm2[2], q.norm2[1] * v.norm2[1]>>)

FracLess(x, y) == x[1] * y[2] < y[1] * x[2]

\* r._distance of a fetched row: the distance 2 - 2c, kept as the c squared it
\* is computed from; it is 0 (falsy) exactly when c is 1
Distance(near) == [near |-> near]
IsZero(distance) == distance.near[1] = distance.near[2]

\* a score that is the distance itself
ScoreIsDistance(distance) == distance

\* r._distance ? 1 - r._distance : 1, the 1 being 1 - 0
Score(distance) ==
  [oneMinus |-> IF IsZero(distance) THEN Distance(<<1, 1>>) ELSE distance]

\* table.search(queryVector).limit(k).toArray(): the k nearest rows, nearest
\* first, rows at the same distance in table order; each with its nearness
RECURSIVE InsertNear(_, _)
InsertNear(sorted, r) ==
  IF sorted = <<>> THEN <<r>>
  ELSE IF FracLess(Head(sorted).near, r.near) THEN <<r>> \o sorted
  ELSE <<Head(sorted)>> \o InsertNear(Tail(sorted), r)

RECURSIVE Nearest(_, _)
Nearest(tbl, q) ==
  IF tbl = <<>> THEN <<>>
  ELSE InsertNear(Nearest(SubSeq(tbl, 1, Len(tbl) - 1), q),
                  [row |-> tbl[Len(tbl)],
                   near |-> Nearness(q, RowVector(tbl[Len(tbl)]))])

\* r.content.substring(0, 500) + (r.content.length > 500 ? '...' : '')
Preview(content) ==
  substring(content, PreviewLen) \o (IF Len(content) > PreviewLen THEN "..." ELSE "")

\* a search that filters by type before it fetches the nearest rows
searchFilterFirst(tbl, query, limit, type) ==
  LET q == generateSimpleEmbedding(query)
      rows == IF type # Undefined /\ type # "" /\ type # "all"
              THEN SelectSeq(tbl, LAMBDA e : e.type = type)
              ELSE tbl
      near == Nearest(rows, q)
      top == SubSeq(near, 1, Min(limit, Len(near)))
  IN [i \in 1..Len(top) |->
        [id |-> top[i].row.id, type |-> top[i].row.type,
         title |-> top[i].row.title, content |-> Preview(top[i].row.content),
         score |-> Score(Distance(top[i].near)),
         timestamp |-> top[i].row.timestamp]]

\* search in a process without a key: the query is embedded by
\* generateSimpleEmbedding, 2 * limit nearest rows are fetched, filtered by type
\* and cut to limit.
search(tbl, query, limit, type) ==
  LET q == generateSimpleEmbedding(query)
      near == Nearest(tbl, q)
      results == SubSeq(near, 1, Min(2 * limit, Len(near)))
      filtered == IF type # Undefined /\ type # "" /\ type # "all"
                  THEN SelectSeq(results, LAMBDA r : r.row.type = type)
                  ELSE results
      top == SubSeq(filtered, 1, Min(limit, Len(filtered)))
  IN [i \in 1..Len(top) |->
        [id |-> top[i].row.id, type |-> top[i].row.type,
         title |-> top[i].row.title, content |-> Preview(top[i].row.content),
         score |-> Score(Distance(top[i].near)),
         timestamp |-> top[i].row.timestamp]]

\* allEntries.filter(e => e.type === type).length
CountType(tbl, type) == Len(SelectSeq(tbl, LAMBDA e : e.type = type))

\* new Set(allEntries.map(e => e.projectPath).filter(Boolean))
Projects(tbl) ==
  {tbl[i].projectPath : i \in 1..Len(tbl)} \ {Undefined, ""}

getStats(tbl) ==
  [totalEntries |-> Len(tbl),
   conversations |-> CountType(tbl, "conversation"),
   decisions |-> CountType(tbl, "decision"),
   codeContexts |-> CountType(tbl, "code"),
   tasks |-> CountType(tbl, "task"),
   documents |-> CountType(tbl, "document"),
   indexedProjects |-> Projects(tbl)]

\* getProjectSummary
getProjectSummary(tbl, projectPath) ==
  LET projectEntries == SelectSeq(tbl, LAMBDA e : e.projectPath = projectPath)
      conversations == SelectSeq(projectEntries, LAMBDA e : e.type = "conversation")
      decisions == SelectSeq(projectEntries, LAMBDA e : e.type = "decision")
      codeContexts == SelectSeq(projectEntries, LAMBDA e : e.type = "code")
      c == SortDesc(conversations)
      d == SortDesc(decisions)
  IN [projectPath |-> projectPath,
      stats |-> [totalConversations |-> Len(conversations),
                 totalDecisions |-> Len(decisions),
                 totalCodeContexts |-> Len(codeContexts)],
      recentConversations |->
        [i \in 1..Min(RecentCount, Len(c)) |->
           [title |-> c[i].title, timestamp |-> c[i].timestamp]],
      recentDecisions |->
        [i \in 1..Min(RecentCount, Len(d)) |->
           [title |-> d[i].title,
            content |-> substring(d[i].content, DecisionPreviewLen)]]]

\* the callers of generateEmbedding and generateSummary that can be waiting
\* together
Callers == {"e1", "e2"}

\* no call of the provider in flight
IdleExt == [pc |-> "idle", op |-> "", text |-> "", out |-> JsUndefined]

Init ==
  /\ clock = 1
  /\ table = <<SeedEntry(1)>>
  /\ upd = [u \in Updaters |-> IdleUpd]
  /\ disk = [f \in Files |-> "absent"]
  /\ indexedFiles = {}
  /\ watcher = 0
  /\ openW = {}
  /\ events = {}
  /\ cbs = {}
  /\ job = [j \in Jobs |-> IdleJob]
  /\ isWatching = FALSE
  /\ db = ReadyDb
  /\ call = IdleCall
  /\ OPENAI_API_KEY = FALSE
  /\ ext = [e \in Callers |-> IdleExt]

\* the millisecond clock advances
Tick ==
  /\ clock < MaxClock
  /\ clock' = clock + 1
  /\ UNCHANGED <<apiVars, table, upd, indexerVars>>

\* create_task tool -> ContextStore.createTask
CreateTask(a) ==
  /\ Initialized(db)
  /\ Len(table) < MaxEntries
  /\ LET e == TaskEntry(a.title, a.content, OrDefault(a.priority, "medium"),
                        OrDefault(a.tags, <<>>), a.projectPath, clock)
     IN \E vector \in Vectors : table' = addEntry(table, e, vector)
  /\ UNCHANGED <<apiVars, clock, upd, indexerVars>>

\* store_document tool -> ContextStore.storeDocument
StoreDocument(a) ==
  /\ Initialized(db)
  /\ Len(table) < MaxEntries
  /\ LET e == DocumentEntry(a.title, a.content, OrDefault(a.tags, <<>>),
                            a.projectPath, clock)
     IN \E vector \in Vectors : table' = addEntry(table, e, vector)
  /\ UNCHANGED <<apiVars, clock, upd, indexerVars>>

\* store_decision tool -> ContextStore.storeDecision
StoreDecision(a) ==
  /\ Initialized(db)
  /\ Len(table) < MaxEntries
  /\ LET e == DecisionEntry(a.title, a.content, OrDefault(a.tags, <<>>), clock)
     IN \E vector \in Vectors : table' = addEntry(table, e, vector)
  /\ UNCHANGED <<apiVars, clock, upd, indexerVars>>

\* ContextStore.storeCodeContext(filePath, content, projectPath)
CodeArgs ==
  { [filePath |-> "/p/src/a.ts", basename |-> "a.ts", content |-> "let a",
     projectPath |-> "/p"] }

StoreCodeContext(a) ==
  /\ Initialized(db)
  /\ Len(table) < MaxEntries
  /\ LET e == CodeEntry(a.filePath, a.basename, a.content, a.projectPath, clock)
     IN \E vector \in Vectors : table' = addEntry(table, e, vector)
  /\ UNCHANGED <<apiVars, clock, upd, indexerVars>>

\* ids a caller can pass: the id of any stored row, or one that was never issued
UnknownId == "task-none"
CallerIds == {table[i].id : i \in 1..Len(table)} \cup {UnknownId}

\* update_task_status tool -> updateTaskStatus, up to the point where the
\* delete has been issued: query, find, then throw or mutate the row in memory
UpdateRead(u, taskId, status) ==
  /\ Initialized(db)
  /\ upd[u].pc = "idle"
  /\ LET task == FindFirst(table, taskId, "task")
     IN upd' = [upd EXCEPT ![u] =
          IF task = NoEntry
          THEN [pc |-> "thrown", taskId |-> taskId, status |-> status,
                task |-> NoEntry]
          ELSE [pc |-> "deleting", taskId |-> taskId, status |-> status,
                task |-> [task EXCEPT !.status = status, !.timestamp = clock]]]
  /\ UNCHANGED <<apiVars, table, clock, indexerVars>>

\* updateTaskStatus: await this.table.delete(`id = '${taskId}'`)
UpdateDelete(u) ==
  /\ upd[u].pc = "deleting"
  /\ table' = TableDelete(table, upd[u].taskId)
  /\ upd' = [upd EXCEPT ![u].pc = "adding"]
  /\ UNCHANGED <<apiVars, clock, indexerVars>>

\* updateTaskStatus: await this.table.add([task]), then the handler returns
UpdateReinsert(u) ==
  /\ upd[u].pc = "adding"
  /\ Len(table) < MaxEntries
  /\ table' = TableAdd(table, upd[u].task)
  /\ upd' = [upd EXCEPT ![u] = IdleUpd]
  /\ UNCHANGED <<apiVars, clock, indexerVars>>

\* updateTaskStatus: the awaited table.delete rejects; nothing was removed
UpdateDeleteFail(u) ==
  /\ upd[u].pc = "deleting"
  /\ upd' = [upd EXCEPT ![u].pc = "thrown"]
  /\ UNCHANGED <<apiVars, table, clock, indexerVars>>

\* updateTaskStatus: the awaited table.add rejects; nothing was added
UpdateAddFail(u) ==
  /\ upd[u].pc = "adding"
  /\ upd' = [upd EXCEPT ![u].pc = "thrown"]
  /\ UNCHANGED <<apiVars, table, clock, indexerVars>>

\* the payload of an update_task_status call whose updateTaskStatus threw
UpdateError(u) == Err("Task not found: " \o upd[u].taskId)

\* the handler's catch block returns the error payload
UpdateCatch(u) ==
  /\ upd[u].pc = "thrown"
  /\ upd' = [upd EXCEPT ![u] = IdleUpd]
  /\ UNCHANGED <<apiVars, table, clock, indexerVars>>

\* delete_task tool -> ContextStore.deleteTask
DeleteTask(taskId) ==
  /\ Initialized(db)
  /\ table' = TableDelete(table, taskId)
  /\ UNCHANGED <<apiVars, clock, upd, indexerVars>>

\* delete_document tool -> ContextStore.deleteDocument
DeleteDocument(docId) ==
  /\ Initialized(db)
  /\ table' = TableDelete(table, docId)
  /\ UNCHANGED <<apiVars, clock, upd, indexerVars>>

\* get_document tool: the payload the handler returns for docId on table tbl
GetDocument(tbl, docId) ==
  LET doc == getDocument(tbl, docId)
  IN IF doc = NoDoc
     THEN [isError |-> TRUE, text |-> "Document not found: " \o docId, doc |-> NoDoc]
     ELSE [isError |-> FALSE, text |-> "", doc |-> doc]

\* list_documents tool: the rows the handler returns on table tbl
ListDocuments(tbl, projectPath, tags) == listDocuments(tbl, projectPath, tags)

\* list_tasks tool: the rows the handler returns on table tbl
ListTasks(tbl, projectPath, status) == listTasks(tbl, projectPath, status)

----------------------------------------------------------------------------
\* ContextStore as an object: initialize() and the methods' entry checks

\* the public methods of ContextStore
StoreOps ==
  {"search", "addEntry", "storeDecision", "storeConversation",
   "storeCodeContext", "getProjectSummary", "getRelatedConversations",
   "hasProject", "getStats", "createTask", "updateTaskStatus", "listTasks",
   "deleteTask", "storeDocument", "listDocuments", "getDocument",
   "deleteDocument"}

\* the methods that only read the table
ReadOps ==
  {"search", "getProjectSummary", "getRelatedConversations", "hasProject",
   "getStats", "listTasks", "listDocuments", "getDocument"}

\* initialize(): mkdir, lancedb.connect, db.tableNames(); `found` is
\* tables.includes('context')
InitializeConnect ==
  /\ db.pc = "new"
  /\ db' = [db EXCEPT !.pc = "connecting", !.found = db.exists]
  /\ UNCHANGED <<storeVars, indexerVars, call, extVars>>

\* initialize() that creates the table whether or not it exists
InitializeOpenCreate ==
  /\ db.pc = "connecting"
  /\ table' = <<SeedEntry(clock)>>
  /\ db' = [db EXCEPT !.pc = "ready", !.exists = TRUE]
  /\ UNCHANGED <<clock, upd, indexerVars, call, extVars>>

\* initialize(): openTable, or createTable with the seed record; then
\* this.table is assigned
InitializeOpen ==
  /\ db.pc = "connecting"
  /\ table' = IF db.found THEN table ELSE <<SeedEntry(clock)>>
  /\ db' = [db EXCEPT !.pc = "ready", !.exists = TRUE]
  /\ UNCHANGED <<clock, upd, indexerVars, call, extVars>>

\* a method called while this.table is null throws before it touches the table
NotInitialized(op) ==
  /\ call.pc = "idle"
  /\ ~Initialized(db)
  /\ call' = [IdleCall EXCEPT !.pc = "thrown", !.name = op,
                              !.error = "Store not initialized"]
  /\ UNCHANGED <<storeVars, indexerVars, db, extVars>>

\* a reading method called on the open table: table.query().toArray() (or
\* table.search) and the result
StoreRead(op) ==
  /\ call.pc = "idle"
  /\ Initialized(db)
  /\ call' = [IdleCall EXCEPT !.pc = "returned", !.name = op,
                              !.payload = Ok("result of " \o op)]
  /\ UNCHANGED <<storeVars, indexerVars, db, extVars>>

\* the caller has received the result or the rejection
Settle ==
  /\ call.pc \in {"thrown", "returned"}
  /\ call' = IdleCall
  /\ UNCHANGED <<storeVars, indexerVars, db, extVars>>

----------------------------------------------------------------------------
\* the CallTool handler, for the tools whose case awaits one store method

\* the names of the switch
Tools ==
  {"search_context", "get_project_summary", "store_decision",
   "get_related_conversations", "index_project", "start_watching",
   "get_memory_status", "list_tasks", "create_task", "update_task_status",
   "delete_task", "list_documents", "store_document", "get_document",
   "delete_document"}

\* the tools whose case awaits one store method
StoreTools == Tools \ {"index_project", "start_watching", "update_task_status"}

\* the tools that only read the store
ReadTools ==
  {"search_context", "get_project_summary", "get_related_conversations",
   "get_memory_status", "list_tasks", "list_documents", "get_document"}

\* names a client can send: the tools, and one that is not in the switch
ToolNames == Tools \cup {"no_such_tool"}

\* what the store method under a tool can reject with: an Error with a
\* message, or a value that is not an Error
Thrown == {"lance error", Undefined}

\* error instanceof Error ? error.message : 'Unknown error'
ErrorMessage(e) == IF e = Undefined THEN "Unknown error" ELSE e

\* default: throw new Error(`Unknown tool: ${name}`)
UnknownTool(name) ==
  /\ call.pc = "idle"
  /\ name \notin Tools
  /\ call' = [IdleCall EXCEPT !.pc = "thrown", !.name = name,
                              !.error = "Unknown tool: " \o name]
  /\ UNCHANGED <<storeVars, indexerVars, db, extVars>>

\* the store method under a tool rejects with e, nothing stored
ToolFail(name, e) ==
  /\ call.pc = "idle"
  /\ name \in StoreTools
  /\ call' = [IdleCall EXCEPT !.pc = "thrown", !.name = name, !.error = e]
  /\ UNCHANGED <<storeVars, indexerVars, db, extVars>>

\* a reading tool completes: its case returns the result, and get_document
\* returns the isError payload when there is no such document
ReadTool(name, docId) ==
  /\ call.pc = "idle"
  /\ name \in ReadTools
  /\ Initialized(db)
  /\ LET r == GetDocument(table, docId)
     IN call' = [IdleCall EXCEPT
          !.pc = "returned", !.name = name,
          !.payload = IF name = "get_document" /\ r.isError
                      THEN [isError |-> TRUE, text |-> r.text]
                      ELSE Ok("JSON of " \o name)]
  /\ UNCHANGED <<storeVars, indexerVars, db, extVars>>

\* delete_task and delete_document: await store.deleteTask(taskId) or
\* store.deleteDocument(docId), which is table.delete(`id = '...'`), then the
\* case returns its text
DeleteTools == {"delete_task", "delete_document"}

DeleteTool(name, id) ==
  /\ call.pc = "idle"
  /\ name \in DeleteTools
  /\ Initialized(db)
  /\ table' = TableDelete(table, id)
  /\ call' = IF Where(Predicate(id)).error
             THEN [IdleCall EXCEPT !.pc = "thrown", !.name = name,
                                   !.error = "lance error"]
             ELSE [IdleCall EXCEPT
                    !.pc = "returned", !.name = name,
                    !.payload = Ok((IF name = "delete_task" THEN "Task "
                                    ELSE "Document ")
                                     \o id \o " deleted successfully.")]
  /\ UNCHANGED <<clock, upd, indexerVars, db, extVars>>

\* the handler's catch block turns what was thrown into the error payload
ToolCatch ==
  /\ call.pc = "thrown"
  /\ call' = [call EXCEPT !.pc = "returned",
                          !.payload = Err(ErrorMessage(call.error))]
  /\ UNCHANGED <<storeVars, indexerVars, db, extVars>>

\* the handler returns the payload to the client
ToolReturn ==
  /\ call.pc = "returned"
  /\ call' = IdleCall
  /\ UNCHANGED <<storeVars, indexerVars, db, extVars>>

----------------------------------------------------------------------------
\* ConversationIndexer

\* the lengths the code truncates to
SummaryFallbackLen == 500
TitleLen == 100
TranscriptLen == 5000

\* s repeated n times
RECURSIVE Repeat(_, _)
Repeat(str, n) == IF n = 0 THEN "" ELSE str \o Repeat(str, n - 1)

\* a user message longer than every truncation applied to a summary or a title
LongMessage == Repeat("0123456789", 60)

\* the parsed transcript of a file: its own id ("" when it has none) and its
\* messages
Transcript(f) ==
  IF f = "f1"
  THEN [id |-> "c1", messages |-> <<[role |-> "user", content |-> "hello"]>>]
  ELSE [id |-> "",
        messages |-> <<[role |-> "assistant", content |-> "hi"],
                       [role |-> "user", content |-> LongMessage]>>]

\* conversation.messages.map(m => `[${m.role}]: ${m.content}`).join('\n\n')
RECURSIVE MessageTexts(_)
MessageTexts(messages) ==
  IF messages = <<>> THEN ""
  ELSE LET m == Head(messages)
           line == "[" \o m.role \o "]: " \o m.content
       IN IF Tail(messages) = <<>> THEN line
          ELSE line \o "\n\n" \o MessageTexts(Tail(messages))

\* the title: the first user message, cut to 100 characters
Title(messages) ==
  LET users == SelectSeq(messages, LAMBDA m : m.role = "user")
  IN IF users = <<>> THEN "Untitled conversation"
     ELSE substring(users[1].content, TitleLen)

\* what anthropic.messages.create does: it resolves with a text block, with a
\* block of another type, with no block, or it rejects
SummaryReplies ==
  { [kind |-> "text", text |-> "A summary."], [kind |-> "tool_use", text |-> ""],
    [kind |-> "none", text |-> ""], [kind |-> "rejected", text |-> ""] }

\* no summarizer can be reached
NoSummarizer == [kind |-> "rejected", text |-> ""]

\* a fallback that hands the text back whole
generateSummaryWhole(text, reply) ==
  IF reply.kind = "text" THEN reply.text ELSE text

\* generateSummary: the text of the reply's first block when it is a text
\* block; in every other case (another type, a TypeError on a missing block, a
\* rejected request) text.substring(0, 500)
generateSummary(text, reply) ==
  IF reply.kind = "text" THEN reply.text
  ELSE substring(text, SummaryFallbackLen)

\* `${summary}\n\n---\n\n${messageTexts.substring(0, 5000)}`
Separator == "\n\n---\n\n"

\* ContextStore.storeConversation's record
ConversationEntry(id, title, content, projectPath, now) ==
  [id |-> id, type |-> "conversation", title |-> title, content |-> content,
   projectPath |-> projectPath, filePath |-> Undefined, tags |-> <<>>,
   timestamp |-> now, status |-> Undefined, priority |-> Undefined]

\* indexConversationFile after readFile and JSON.parse succeeded: the row stored
\* for file f (conversation.id || path.basename(filePath, '.json')) when the
\* summarizer answers with `reply`
indexConversationFile(tbl, f, projectPath, now, reply, vector) ==
  LET c == Transcript(f)
      messageTexts == MessageTexts(c.messages)
      summary == generateSummary(messageTexts, reply)
  IN addEntry(tbl, ConversationEntry(IF c.id # "" THEN c.id ELSE f,
                                     Title(c.messages),
                                     summary \o Separator
                                       \o substring(messageTexts, TranscriptLen),
                                     projectPath, now),
              vector)

\* fs.readdir(conversationsDir) filtered to *.json, in directory order
ReadDir(d) == SelectSeq(DirOrder, LAMBDA f : d[f] # "absent")

\* a loop that never consults indexedFiles
SkipNothing(files, force, indexed) == files

\* the loop of indexProjectConversations from its current file on: files that
\* are `continue`d (!force && indexedFiles.has(filePath)) are passed over
RECURSIVE SkipIndexed(_, _, _)
SkipIndexed(files, force, indexed) ==
  IF files = <<>> THEN <<>>
  ELSE IF ~force /\ Head(files) \in indexed
       THEN SkipIndexed(Tail(files), force, indexed)
       ELSE files

\* where the loop stands once `files` remain: awaiting a readFile, or finished
LoopPc(files) == IF files = <<>> THEN "done" ELSE "reading"

\* Number.prototype.toString(16) of a number below 2^16
HexDigits == "0123456789abcdef"

RECURSIVE Hex(_)
Hex(n) ==
  IF n < 16 THEN SubSeq(HexDigits, n + 1, n + 1)
  ELSE Hex(n \div 16) \o SubSeq(HexDigits, (n % 16) + 1, (n % 16) + 1)

\* the same, on four digits
Hex4(n) == LET h == Hex(n) IN SubSeq("000", 1, 4 - Len(h)) \o h

\* Math.abs of the 32-bit pattern read as a signed integer, as two 16-bit
\* halves: Math.abs(-2^31) is 2^31
Abs(h) ==
  IF h.hi < Half \div 2 THEN h
  ELSE [hi |-> (Half - 1 - h.hi + (IF h.lo = 0 THEN 1 ELSE 0)) % Half,
        lo |-> (Half - h.lo) % Half]

\* hashProjectPath: the rolling hash of the path, Math.abs(hash).toString(16)
hashProjectPath(projectPath) ==
  LET m == Abs(HashBits(projectPath, [hi |-> 0, lo |-> 0]))
  IN IF m.hi = 0 THEN Hex(m.lo) ELSE Hex(m.hi) \o Hex4(m.lo)

\* String.prototype.includes
Contains(str, part) ==
  \E i \in 1..(Len(str) - Len(part) + 1) : SubSeq(str, i, i + Len(part) - 1) = part

\* a directory of ~/.claude/projects: its name, its settings.json ("missing",
\* "malformed", or the projectPath it records) and its conversations
\* ("dir": a directory, "missing", "unreadable": readdir rejects)
Unreadable(settings) == settings \in {"missing", "malformed"}

\* settings.projectPath === projectPath || projectPath.includes(projectHash)
Matches(d, projectPath) == d.settings = projectPath \/ Contains(projectPath, d.name)

\* a loop whose name test does not wait for settings.json to be read
ProjectLoopByName(projects, i, projectPath) ==
  IF \E k \in 1..Len(projects) : Matches(projects[k], projectPath)
  THEN LET k == CHOOSE k \in 1..Len(projects) :
                  /\ Matches(projects[k], projectPath)
                  /\ \A m \in 1..(k - 1) : ~Matches(projects[m], projectPath)
       IN [dir |-> projects[k].name, outcome |-> "indexed"]
  ELSE [dir |-> "", outcome |-> "none"]

\* indexProject's loop from directory i on: a directory whose settings.json
\* cannot be read or parsed is passed over; the first one that matches is
\* handed to indexProjectConversations, which returns at once when there is no
\* conversations directory; when it throws, the loop's catch goes on to the
\* next directory. After the loop the directory named by the hash is tried,
\* and what indexProjectConversations throws there is rethrown.
RECURSIVE ProjectLoop(_, _, _)
ProjectLoop(projects, i, projectPath) ==
  IF i > Len(projects)
  THEN LET hash == hashProjectPath(projectPath)
           hashDirs == {k \in 1..Len(projects) : projects[k].name = hash}
       IN IF hashDirs = {} THEN [dir |-> "", outcome |-> "none"]
          ELSE LET d == projects[CHOOSE k \in hashDirs : TRUE]
               IN IF d.conversations = "dir" THEN [dir |-> d.name, outcome |-> "indexed"]
                  ELSE IF d.conversations = "missing"
                  THEN [dir |-> d.name, outcome |-> "empty"]
                  ELSE [dir |-> d.name, outcome |-> "thrown"]
  ELSE LET d == projects[i]
       IN IF ~Unreadable(d.settings) /\ Matches(d, projectPath)
          THEN IF d.conversations = "dir" THEN [dir |-> d.name, outcome |-> "indexed"]
               ELSE IF d.conversations = "missing"
               THEN [dir |-> d.name, outcome |-> "empty"]
               ELSE ProjectLoop(projects, i + 1, projectPath)
          ELSE ProjectLoop(projects, i + 1, projectPath)

\* index_project tool on a projects directory that lists `projects`: the
\* handler calls indexProject(projectPath, force), which resolves the directory
IndexProjectIn(j, force, projectPath, projects) ==
  /\ job[j].pc = "idle"
  /\ LET r == ProjectLoop(projects, 1, projectPath)
     IN job' = [job EXCEPT ![j] = [IdleJob EXCEPT
                  !.pc = IF r.outcome = "indexed" THEN "scanning"
                         ELSE IF r.outcome = "thrown" THEN "thrown" ELSE "done",
                  !.tool = "index_project", !.force = force,
                  !.projectPath = projectPath, !.projects = projects,
                  !.dir = r.dir]]
  /\ UNCHANGED <<apiVars, storeVars, disk, indexedFiles, watcher, openW, events, cbs,
                 isWatching>>

\* index_project tool: the handler calls indexProject(projectPath, force)
IndexProject(j, force) ==
  /\ job[j].pc = "idle"
  /\ job' = [job EXCEPT ![j] = [IdleJob EXCEPT !.pc = "scanning",
                                                !.tool = "index_project",
                                                !.force = force]]
  /\ UNCHANGED <<apiVars, storeVars, disk, indexedFiles, watcher, openW, events, cbs,
                 isWatching>>

\* watcher.close(): the watcher emits nothing any more
CloseWatcher(w) ==
  /\ openW' = openW \ {w}
  /\ events' = {e \in events : e.w # w}

\* start_watching tool: `if (isWatching) await indexer.stopWatching()`, where
\* stopWatching is `if (this.watcher) { await this.watcher.close(); ... }`:
\* with a watcher it calls close() and waits; with none it returns at once and
\* the handler goes on to indexProject(projectPath, false)
StartWatchingTool(j) ==
  /\ job[j].pc = "idle"
  /\ IF isWatching
     THEN IF watcher # 0
          THEN /\ CloseWatcher(watcher)
               /\ job' = [job EXCEPT ![j] = [IdleJob EXCEPT
                             !.pc = "stopping", !.tool = "start_watching",
                             !.stop = "close"]]
          ELSE /\ job' = [job EXCEPT ![j] = [IdleJob EXCEPT
                             !.pc = "scanning", !.tool = "start_watching",
                             !.stop = "noop"]]
               /\ UNCHANGED <<openW, events>>
     ELSE /\ job' = [job EXCEPT ![j] = [IdleJob EXCEPT
                        !.pc = "scanning", !.tool = "start_watching"]]
          /\ UNCHANGED <<openW, events>>
  /\ UNCHANGED <<apiVars, storeVars, disk, indexedFiles, watcher, cbs, isWatching>>

\* a stopWatching that leaves this.watcher as it is
StopWatchingKeep(j) ==
  /\ job[j].pc = "stopping"
  /\ job' = [job EXCEPT ![j].pc = "scanning"]
  /\ UNCHANGED <<apiVars, storeVars, disk, indexedFiles, watcher, openW, events, cbs,
                 isWatching>>

\* stopWatching after its await of close(): `this.watcher = null`; it returns,
\* and the handler calls indexProject(projectPath, false)
StopWatchingResume(j) ==
  /\ job[j].pc = "stopping"
  /\ watcher' = 0
  /\ job' = [job EXCEPT ![j].pc = "scanning"]
  /\ UNCHANGED <<apiVars, storeVars, disk, indexedFiles, openW, events, cbs, isWatching>>

\* indexProject found the project directory: indexProjectConversations reads
\* the conversations directory and enters the loop
indexProjectConversations(j) ==
  /\ job[j].pc = "scanning"
  /\ LET files == SkipIndexed(ReadDir(disk), job[j].force, indexedFiles)
     IN job' = [job EXCEPT ![j].pc = LoopPc(files), ![j].files = files]
  /\ UNCHANGED <<apiVars, storeVars, disk, indexedFiles, watcher, openW, events, cbs,
                 isWatching>>

\* indexProject: fs.readdir(projectsDir) rejects (the directory is missing or
\* unreadable); the catch logs and rethrows
IndexProjectThrow(j) ==
  /\ job[j].pc = "scanning"
  /\ job' = [job EXCEPT ![j].pc = "thrown"]
  /\ UNCHANGED <<apiVars, storeVars, disk, indexedFiles, watcher, openW, events, cbs,
                 isWatching>>

\* the payload of an index_project / start_watching call whose indexProject
\* threw the error `message`
IndexError(message) == Err(message)

\* the handler's catch block returns the error payload of what indexProject
\* threw
IndexCatch(j) ==
  /\ job[j].pc = "thrown"
  /\ job' = [job EXCEPT ![j] = IdleJob]
  /\ UNCHANGED <<apiVars, storeVars, disk, indexedFiles, watcher, openW, events, cbs,
                 isWatching>>

\* what the loop's catch does with a file that failed: log it, and go on with
\* the files after it
AbortOnFailure(files, force, indexed) == <<>>

AfterFailure(files, force, indexed) == SkipIndexed(Tail(files), force, indexed)

\* indexConversationFile: fs.readFile + JSON.parse of the current file; a
\* failure is caught by the loop, which goes on to the next file
IndexRead(j) ==
  /\ job[j].pc = "reading"
  /\ LET f == Head(job[j].files)
     IN IF disk[f] = "ok"
        THEN job' = [job EXCEPT ![j].pc = "storing"]
        ELSE LET rest == AfterFailure(job[j].files, job[j].force, indexedFiles)
             IN job' = [job EXCEPT ![j].pc = LoopPc(rest), ![j].files = rest]
  /\ UNCHANGED <<apiVars, storeVars, disk, indexedFiles, watcher, openW, events, cbs,
                 isWatching>>

\* indexConversationFile: generateSummary (the summarizer answers with
\* `reply`), storeConversation; then indexedFiles.add(filePath) and the loop's
\* next iteration
IndexStoreSummary(j, reply) ==
  /\ job[j].pc = "storing"
  /\ Initialized(db)
  /\ Len(table) < MaxEntries
  /\ LET f == Head(job[j].files)
         indexed == indexedFiles \cup {f}
         rest == SkipIndexed(Tail(job[j].files), job[j].force, indexed)
     IN /\ \E vector \in Vectors :
             table' = indexConversationFile(table, f, job[j].projectPath, clock, reply,
                                            vector)
        /\ indexedFiles' = indexed
        /\ job' = [job EXCEPT ![j].pc = LoopPc(rest), ![j].files = rest]
  /\ UNCHANGED <<apiVars, clock, upd, disk, watcher, openW, events, cbs, isWatching>>

\* the same step in a process that cannot reach the summarizer
IndexStore(j) == IndexStoreSummary(j, NoSummarizer)

\* index_project tool: indexProject returned, the handler returns
IndexReturn(j) ==
  /\ job[j].pc = "done"
  /\ job[j].tool = "index_project"
  /\ job' = [job EXCEPT ![j] = IdleJob]
  /\ UNCHANGED <<apiVars, storeVars, disk, indexedFiles, watcher, openW, events, cbs,
                 isWatching>>

\* chokidar.watch(projectsDir, {ignoreInitial: true, ...}): a new watcher,
\* assigned to this.watcher; its handlers are registered
NewWatcher(j) ==
  \E w \in WatcherIds :
    /\ w \notin openW
    /\ \A v \in WatcherIds \ openW : w <= v
    /\ watcher' = w
    /\ openW' = openW \cup {w}
    /\ job' = [job EXCEPT ![j].pc = "started"]

\* start_watching tool: indexProject returned; indexer.startWatching begins:
\* `if (this.watcher) await this.watcher.close()`, else the watcher is
\* created right away
StartWatching(j) ==
  /\ job[j].pc = "done"
  /\ job[j].tool \in {"start_watching", "main"}
  /\ IF watcher # 0
     THEN /\ CloseWatcher(watcher)
          /\ job' = [job EXCEPT ![j].pc = "closing"]
          /\ UNCHANGED watcher
     ELSE /\ NewWatcher(j)
          /\ UNCHANGED events
  /\ UNCHANGED <<apiVars, storeVars, disk, indexedFiles, cbs, isWatching>>

\* startWatching after its await of close(): the watcher is created
StartWatchingResume(j) ==
  /\ job[j].pc = "closing"
  /\ NewWatcher(j)
  /\ UNCHANGED <<apiVars, storeVars, disk, indexedFiles, events, cbs, isWatching>>

\* start_watching tool: startWatching returned; `isWatching = true` and the
\* handler returns
SetWatching(j) ==
  /\ job[j].pc = "started"
  /\ isWatching' = TRUE
  /\ job' = [job EXCEPT ![j] = IdleJob]
  /\ UNCHANGED <<apiVars, storeVars, disk, indexedFiles, watcher, openW, events, cbs>>

\* the external agent writes a new transcript file; open watchers emit 'add'
FileAdd(f, st) ==
  /\ disk[f] = "absent"
  /\ disk' = [disk EXCEPT ![f] = st]
  /\ events' = events \cup {[w |-> w, kind |-> "add", file |-> f] : w \in openW}
  /\ UNCHANGED <<apiVars, storeVars, indexedFiles, watcher, openW, cbs, job, isWatching>>

\* the external agent rewrites a transcript file; open watchers emit 'change'
FileChange(f, st) ==
  /\ disk[f] # "absent"
  /\ disk' = [disk EXCEPT ![f] = st]
  /\ events' = events \cup {[w |-> w, kind |-> "change", file |-> f] : w \in openW}
  /\ UNCHANGED <<apiVars, storeVars, indexedFiles, watcher, openW, cbs, job, isWatching>>

\* a handler without its try/catch: the rejection of readFile or JSON.parse
\* is unhandled and ends the process, and with it every watcher
WatchReadUncaught(e) ==
  /\ e \in events
  /\ IF disk[e.file] = "ok"
     THEN /\ events' = events \ {e}
          /\ cbs' = cbs \cup {[kind |-> e.kind, file |-> e.file]}
          /\ UNCHANGED openW
     ELSE /\ events' = {}
          /\ cbs' = {}
          /\ openW' = {}
  /\ UNCHANGED <<apiVars, storeVars, disk, indexedFiles, watcher, job, isWatching>>

\* an 'add' or 'change' handler runs: readFile + JSON.parse; a failure is
\* caught and logged
WatchRead(e) ==
  /\ e \in events
  /\ events' = events \ {e}
  /\ cbs' = IF disk[e.file] = "ok"
            THEN cbs \cup {[kind |-> e.kind, file |-> e.file]}
            ELSE cbs
  /\ UNCHANGED <<apiVars, storeVars, disk, indexedFiles, watcher, openW, job, isWatching>>

\* the handler's storeConversation; the 'add' handler then records the file
WatchStore(cb) ==
  /\ cb \in cbs
  /\ Initialized(db)
  /\ Len(table) < MaxEntries
  /\ \E vector \in Vectors :
       table' = indexConversationFile(table, cb.file, ProjectPath, clock,
                                      NoSummarizer, vector)
  /\ indexedFiles' = IF cb.kind = "add" THEN indexedFiles \cup {cb.file}
                     ELSE indexedFiles
  /\ cbs' = cbs \ {cb}
  /\ UNCHANGED <<apiVars, clock, upd, disk, watcher, openW, events, job, isWatching>>

\* the handler's storeConversation rejects (the table's add fails); the catch
\* logs, and the 'add' handler does not record the file
WatchStoreThrow(cb) ==
  /\ cb \in cbs
  /\ cbs' = cbs \ {cb}
  /\ UNCHANGED <<apiVars, storeVars, disk, indexedFiles, watcher, openW, events, job,
                 isWatching>>

FileStates == {"ok", "bad"}

EventSpace == [w : WatcherIds, kind : {"add", "change"}, file : Files]
CallbackSpace == [kind : {"add", "change"}, file : Files]

----------------------------------------------------------------------------
\* the store under concurrent tool calls
Next ==
  \/ Tick
  \/ \E a \in TaskArgs : CreateTask(a)
  \/ \E a \in DocArgs : StoreDocument(a)
  \/ \E a \in DecisionArgs : StoreDecision(a)
  \/ \E id \in CallerIds, s \in Statuses : UpdateRead("u1", id, s)
  \/ UpdateDelete("u1")
  \/ UpdateReinsert("u1")
  \/ UpdateCatch("u1")
  \/ \E id \in CallerIds : DeleteTask(id)
  \/ \E id \in CallerIds : DeleteDocument(id)

Spec == Init /\ [][Next]_vars

\* the indexer: index_project and start_watching calls, the external agent
\* writing transcripts, and the watch callbacks
NextIndexer ==
  \/ \E j \in Jobs, force \in BOOLEAN : IndexProject(j, force)
  \/ \E j \in Jobs : StartWatchingTool(j)
  \/ \E j \in Jobs : StopWatchingResume(j)
  \/ \E j \in Jobs : indexProjectConversations(j)
  \/ \E j \in Jobs : IndexRead(j)
  \/ \E j \in Jobs : IndexStore(j)
  \/ \E j \in Jobs : IndexReturn(j)
  \/ \E j \in Jobs : StartWatching(j)
  \/ \E j \in Jobs : SetWatching(j)
  \/ \E f \in Files, st \in FileStates : FileAdd(f, st)
  \/ \E f \in Files, st \in FileStates : FileChange(f, st)
  \/ \E e \in EventSpace : WatchRead(e)
  \/ \E cb \in CallbackSpace : WatchStore(cb)

SpecIndexer == Init /\ [][NextIndexer]_vars

\* the store opened on a table that an earlier run left with one task in it
InitUpdates ==
  /\ clock = 1
  /\ table = <<SeedEntry(0), Stored(TaskEntry("A", "x", "high", <<"api">>, "/p", 0))>>
  /\ upd = [u \in Updaters |-> IdleUpd]
  /\ disk = [f \in Files |-> "absent"]
  /\ indexedFiles = {}
  /\ watcher = 0
  /\ openW = {}
  /\ events = {}
  /\ cbs = {}
  /\ job = [j \in Jobs |-> IdleJob]
  /\ isWatching = FALSE
  /\ db = ReadyDb
  /\ call = IdleCall
  /\ OPENAI_API_KEY = FALSE
  /\ ext = [e \in Callers |-> IdleExt]

\* overlapping update_task_status and delete_task calls on stored tasks
NextUpdates ==
  \/ Tick
  \/ \E u \in Updaters, id \in CallerIds, s \in Statuses : UpdateRead(u, id, s)
  \/ \E u \in Updaters : UpdateDelete(u)
  \/ \E u \in Updaters : UpdateReinsert(u)
  \/ \E u \in Updaters : UpdateCatch(u)
  \/ \E id \in CallerIds : DeleteTask(id)

SpecUpdates == InitUpdates /\ [][NextUpdates]_vars

\* the store under a client that issues one tool call at a time
NextSeq ==
  \/ Tick
  \/ upd["u1"].pc = "idle" /\ \E a \in TaskArgs : CreateTask(a)
  \/ upd["u1"].pc = "idle" /\ \E a \in DocArgs : StoreDocument(a)
  \/ upd["u1"].pc = "idle" /\ \E a \in DecisionArgs : StoreDecision(a)
  \/ \E id \in CallerIds, s \in Statuses : UpdateRead("u1", id, s)
  \/ UpdateDelete("u1")
  \/ UpdateReinsert("u1")
  \/ UpdateCatch("u1")
  \/ upd["u1"].pc = "idle" /\ \E id \in CallerIds : DeleteTask(id)
  \/ upd["u1"].pc = "idle" /\ \E id \in CallerIds : DeleteDocument(id)

SpecSeq == Init /\ [][NextSeq]_vars

\* non-forced indexing racing the watcher: index_project(force = false) and
\* start_watching calls while the external agent creates transcripts
NextTriggers ==
  \/ \E j \in Jobs : IndexProject(j, FALSE)
  \/ \E j \in Jobs : StartWatchingTool(j)
  \/ \E j \in Jobs : StopWatchingResume(j)
  \/ \E j \in Jobs : indexProjectConversations(j)
  \/ \E j \in Jobs : IndexRead(j)
  \/ \E j \in Jobs : IndexStore(j)
  \/ \E j \in Jobs : IndexReturn(j)
  \/ \E j \in Jobs : StartWatching(j)
  \/ \E j \in Jobs : SetWatching(j)
  \/ \E f \in Files, st \in FileStates : FileAdd(f, st)
  \/ \E e \in EventSpace : WatchRead(e)
  \/ \E cb \in CallbackSpace : WatchStore(cb)

SpecTriggers == Init /\ [][NextTriggers]_vars

\* index_project calls one after the other, no watch; transcripts are written
\* only between calls
NextIndexSeq ==
  \/ \E j \in Jobs, force \in BOOLEAN : IndexProject(j, force)
  \/ \E j \in Jobs : indexProjectConversations(j)
  \/ \E j \in Jobs : IndexRead(j)
  \/ \E j \in Jobs : IndexStore(j)
  \/ \E j \in Jobs : IndexReturn(j)
  \/ (\A j \in Jobs : job[j].pc = "idle")
       /\ \E f \in Files, st \in FileStates : FileAdd(f, st)
  \/ (\A j \in Jobs : job[j].pc = "idle")
       /\ \E f \in Files, st \in FileStates : FileChange(f, st)

SpecIndexSeq == Init /\ [][NextIndexSeq]_vars

\* a ContextStore that has just been constructed, on a directory that holds a
\* table from an earlier run or none
InitStore ==
  /\ clock = 1
  /\ \E exists \in BOOLEAN :
       /\ db = [pc |-> "new", exists |-> exists, found |-> FALSE]
       /\ table = IF exists
                  THEN <<SeedEntry(0), Stored(TaskEntry("A", "x", "high", <<"api">>, "/p", 0))>>
                  ELSE <<>>
  /\ upd = [u \in Updaters |-> IdleUpd]
  /\ disk = [f \in Files |-> "absent"]
  /\ indexedFiles = {}
  /\ watcher = 0
  /\ openW = {}
  /\ events = {}
  /\ cbs = {}
  /\ job = [j \in Jobs |-> IdleJob]
  /\ isWatching = FALSE
  /\ call = IdleCall
  /\ OPENAI_API_KEY = FALSE
  /\ ext = [e \in Callers |-> IdleExt]

\* the methods of a ContextStore called before, during and after initialize()
NextStore ==
  \/ InitializeConnect
  \/ InitializeOpen
  \/ \E op \in StoreOps : NotInitialized(op)
  \/ \E op \in ReadOps : StoreRead(op)
  \/ Settle
  \/ \E a \in TaskArgs : CreateTask(a)
  \/ \E id \in CallerIds, st \in Statuses : UpdateRead("u1", id, st)
  \/ UpdateDelete("u1")
  \/ UpdateReinsert("u1")
  \/ UpdateCatch("u1")
  \/ \E id \in CallerIds : DeleteTask(id)

SpecStore == InitStore /\ [][NextStore]_vars

\* the server on a table that an earlier run left with a task and a document
InitDispatch ==
  /\ clock = 1
  /\ table = <<SeedEntry(0),
               Stored(TaskEntry("A", "x", "high", <<"api">>, "/p", 0)),
               Stored(DocumentEntry("N", "n", <<>>, "/p", 0))>>
  /\ upd = [u \in Updaters |-> IdleUpd]
  /\ disk = [f \in Files |-> "absent"]
  /\ indexedFiles = {}
  /\ watcher = 0
  /\ openW = {}
  /\ events = {}
  /\ cbs = {}
  /\ job = [j \in Jobs |-> IdleJob]
  /\ isWatching = FALSE
  /\ db = ReadyDb
  /\ call = IdleCall
  /\ OPENAI_API_KEY = FALSE
  /\ ext = [e \in Callers |-> IdleExt]

\* the dispatcher with the failures of the store and of the indexer under it
NextDispatch ==
  \/ \E name \in ToolNames : UnknownTool(name)
  \/ \E name \in ToolNames, e \in Thrown : ToolFail(name, e)
  \/ \E name \in ToolNames, id \in CallerIds : ReadTool(name, id)
  \/ ToolCatch
  \/ ToolReturn
  \/ \E id \in CallerIds, st \in Statuses : UpdateRead("u1", id, st)
  \/ UpdateDelete("u1")
  \/ UpdateReinsert("u1")
  \/ UpdateCatch("u1")
  \/ \E id \in CallerIds : DeleteDocument(id)
  \/ \E j \in Jobs, force \in BOOLEAN : IndexProject(j, force)
  \/ \E j \in Jobs : indexProjectConversations(j)
  \/ \E j \in Jobs : IndexProjectThrow(j)
  \/ \E j \in Jobs : IndexCatch(j)
  \/ \E j \in Jobs : IndexReturn(j)

SpecDispatch == InitDispatch /\ [][NextDispatch]_vars

\* sequential index_project calls with a summarizer that answers, answers
\* with something else than text, or fails
NextSummary ==
  \/ \E j \in Jobs, force \in BOOLEAN : IndexProject(j, force)
  \/ \E j \in Jobs : indexProjectConversations(j)
  \/ \E j \in Jobs : IndexRead(j)
  \/ \E j \in Jobs, reply \in SummaryReplies : IndexStoreSummary(j, reply)
  \/ \E j \in Jobs : IndexReturn(j)
  \/ (\A j \in Jobs : job[j].pc = "idle")
       /\ \E f \in Files, st \in FileStates : FileAdd(f, st)

SpecSummary == Init /\ [][NextSummary]_vars

\* the start_watching calls that can be in flight together
WatchJobs == {"j1", "j2"}

\* two clients of the dispatcher, no call in flight yet
InitWatch ==
  /\ clock = 1
  /\ table = <<SeedEntry(1)>>
  /\ upd = [u \in Updaters |-> IdleUpd]
  /\ disk = [f \in Files |-> "absent"]
  /\ indexedFiles = {}
  /\ watcher = 0
  /\ openW = {}
  /\ events = {}
  /\ cbs = {}
  /\ job = [j \in WatchJobs |-> IdleJob]
  /\ isWatching = FALSE
  /\ db = ReadyDb
  /\ call = IdleCall
  /\ OPENAI_API_KEY = FALSE
  /\ ext = [e \in Callers |-> IdleExt]

\* overlapping start_watching calls while the external agent creates
\* transcripts and the watch callbacks run
NextWatch ==
  \/ \E j \in WatchJobs : StartWatchingTool(j)
  \/ \E j \in WatchJobs : StopWatchingResume(j)
  \/ \E j \in WatchJobs : indexProjectConversations(j)
  \/ \E j \in WatchJobs : IndexProjectThrow(j)
  \/ \E j \in WatchJobs : IndexCatch(j)
  \/ \E j \in WatchJobs : IndexRead(j)
  \/ \E j \in WatchJobs : IndexStore(j)
  \/ \E j \in WatchJobs : StartWatching(j)
  \/ \E j \in WatchJobs : StartWatchingResume(j)
  \/ \E j \in WatchJobs : SetWatching(j)
  \/ \E f \in Files, st \in FileStates : FileAdd(f, st)
  \/ \E e \in EventSpace : WatchRead(e)
  \/ \E cb \in CallbackSpace : WatchStore(cb)

SpecWatch == InitWatch /\ [][NextWatch]_vars

----------------------------------------------------------------------------
\* properties

\* the rows of tbl with the given id
RowsWithId(tbl, id) == SelectSeq(tbl, LAMBDA e : e.id = id)

\* the id under which file f is stored
ConvId(f) == IF Transcript(f).id # "" THEN Transcript(f).id ELSE f

\* C1: in every reachable state of the store no two stored entries have the
\* same id.
C1_UniqueIds ==
  \A i, k \in 1..Len(table) : table[i].id = table[k].id => i = k

\* C2: two create_task calls return two different ids, also within one clock
\* instant, and so do two store_document calls: the id a call returns (the id
\* of the row it appends) is not the id of a task (document) stored by an
\* earlier call.
C2_ReturnedIdsDiffer ==
  [][ /\ (\E a \in TaskArgs : CreateTask(a)) =>
           ~ \E i \in 1..Len(table) :
               table[i].type = "task" /\ table[i].id = table'[Len(table')].id
      /\ (\E a \in DocArgs : StoreDocument(a)) =>
           ~ \E i \in 1..Len(table) :
               table[i].type = "document" /\ table[i].id = table'[Len(table')].id
    ]_vars

\* the ids of the task rows of tbl
TaskIds(tbl) == {tbl[i].id : i \in {k \in 1..Len(tbl) : tbl[k].type = "task"}}

\* the rows list_tasks returns for the id of a task
ListedWithId(tbl, status, id) ==
  SelectSeq(ListTasks(tbl, Undefined, status), LAMBDA t : t.id = id)

\* C3: for every task T in the store and every status s, update_task_status
\* (T.id, s) run to completion with no concurrent operation makes list_tasks
\* return T exactly once with status s (the row reinserted is T with the new
\* status and timestamp, and it is the only row listed under T.id); on an id
\* that matches no task the call fails with 'Task not found' and leaves the
\* table unchanged.
C3_UpdateThenList ==
  [][ /\ UpdateDelete("u1") =>
           \A i \in 1..Len(table) :
             (table[i].id = upd["u1"].taskId /\ table[i].type = "task") =>
               upd["u1"].task =
                 [table[i] EXCEPT !.status = upd["u1"].status,
                                  !.timestamp = upd["u1"].task.timestamp]
      /\ UpdateReinsert("u1") =>
           LET rows == ListedWithId(table', Undefined, upd["u1"].taskId)
           IN Len(rows) = 1 /\ rows[1].status = upd["u1"].status
      /\ \A id \in CallerIds, s \in Statuses :
           (UpdateRead("u1", id, s) /\ id \notin TaskIds(table)) =>
             /\ upd'["u1"].pc = "thrown"
             /\ table' = table
             /\ Err("Task not found: " \o upd'["u1"].taskId)
                  = Err("Task not found: " \o id)
    ]_vars

\* C4 as stated: whenever an update_task_status call stands between its
\* delete and its reinsert, list_tasks does not return the task it updates.
C4_AbsentInWindow ==
  \A u \in Updaters :
    upd[u].pc = "adding" => ListedWithId(table, Undefined, upd[u].taskId) = <<>>

\* C4 amended: the delete step of updateTaskStatus leaves no row with the
\* task's id, and a task id enters the table again only through a reinsert of
\* an update of that id or through create_task; a task id leaves the table
\* only through delete_task or the delete step of an update of that id; the
\* reinsert brings the task back; and list_tasks returns every task in the table.
C4_WindowAmended ==
  /\ [](\A id \in TaskIds(table) : ListedWithId(table, Undefined, id) # <<>>)
  /\ [][ /\ \A u \in Updaters :
              UpdateDelete(u) => upd[u].taskId \notin TaskIds(table')
         /\ \A u \in Updaters :
              UpdateReinsert(u) =>
                ListedWithId(table', upd[u].status, upd[u].taskId) # <<>>
         /\ \A id \in TaskIds(table) \ TaskIds(table') :
              \/ DeleteTask(id)
              \/ \E u \in Updaters : UpdateDelete(u) /\ upd[u].taskId = id
         /\ \A id \in TaskIds(table') \ TaskIds(table) :
              \/ \E a \in TaskArgs : CreateTask(a)
              \/ \E u \in Updaters : UpdateReinsert(u) /\ upd[u].taskId = id
       ]_vars

\* an update stands between its delete and its reinsert and the task is gone
C4_Witness ==
  \E u \in Updaters :
    /\ upd[u].pc = "adding"
    /\ upd[u].taskId \notin TaskIds(table)
    /\ ListedWithId(table, Undefined, upd[u].taskId) = <<>>

\* C5: right after create_task(title, content, priority, tags) returned id X,
\* list_tasks(status = "pending") holds exactly one task with id X, and it
\* carries the given title, content, priority and tags.
C5_CreateThenList ==
  [][ \A a \in TaskArgs :
        CreateTask(a) =>
          LET X == table'[Len(table')].id
              rows == ListedWithId(table', "pending", X)
          IN /\ Len(rows) = 1
             /\ rows[1].title = a.title
             /\ rows[1].content = a.content
             /\ rows[1].priority = OrDefault(a.priority, "medium")
             /\ rows[1].tags = OrDefault(a.tags, <<>>)
    ]_vars

\* C6: store_document(title, content, tags) returns an id X such that
\* get_document(X) returns a document with that title, content and tags; once
\* delete_document(X) has completed, get_document(X) returns none and the tool
\* answers with the error payload 'Document not found'.
C6_DocumentRoundTrip ==
  [][ /\ \A a \in DocArgs :
           StoreDocument(a) =>
             LET X == table'[Len(table')].id
                 r == GetDocument(table', X)
             IN /\ ~r.isError
                /\ r.doc.title = a.title
                /\ r.doc.content = a.content
                /\ r.doc.tags = OrDefault(a.tags, <<>>)
      /\ \A id \in CallerIds :
           DeleteDocument(id) =>
             /\ getDocument(table', id) = NoDoc
             /\ GetDocument(table', id).isError
             /\ GetDocument(table', id).text = "Document not found: " \o id
    ]_vars

\* C7: with force = false, concurrent triggers (index_project calls, the
\* start_watching scan, watch 'add' events) never store more than one
\* conversation entry for the same transcript file.
C7_OneEntryPerTranscript ==
  \A f \in Files : Len(RowsWithId(table, ConvId(f))) <= 1

\* C8: no work is lost: once a start_watching call has set up its watch and
\* nothing is in flight any more (no scan, no undelivered event, no running
\* callback), every parseable transcript file on disk is stored as a
\* conversation entry.
C8_NoWorkLost ==
  ( /\ watcher # 0
    /\ \A j \in Jobs : job[j].pc = "idle"
    /\ events = {}
    /\ cbs = {} )
  => \A f \in Files : disk[f] = "ok" => RowsWithId(table, ConvId(f)) # <<>>

\* the parseable transcript files on disk
OkFiles == {f \in Files : disk[f] = "ok"}

C10_NoDedupOnId ==
  [][ \A f \in Files :
        ( \/ \E j \in Jobs : IndexStore(j) /\ Head(job[j].files) = f
          \/ \E cb \in CallbackSpace : WatchStore(cb) /\ cb.file = f )
        => /\ Len(RowsWithId(table', ConvId(f)))
                = Len(RowsWithId(table, ConvId(f))) + 1
           /\ SubSeq(table', 1, Len(table)) = table
    ]_vars

\* two conversation entries stored for one transcript
C10_Witness ==
  \E f \in Files :
    LET rows == RowsWithId(table, ConvId(f))
    IN Len(rows) = 2 /\ rows[1].type = "conversation"
                     /\ rows[2].type = "conversation"

\* C11: at most one filesystem watch is active per indexer, also when
\* start_watching calls overlap: every watcher that is open is the one the
\* indexer refers to, so that no earlier watcher is left open and unreferenced.
C11_OneWatch ==
  /\ Cardinality(openW) <= 1
  /\ openW \subseteq {watcher}

\* C12: after stopWatching() has returned, no watch callback writes to the
\* store any more: while a start_watching call has closed the watch through
\* stopWatching, has got the return, and no watcher has been created since,
\* no watch callback stores an entry.
C12_NoCallbackAfterStop ==
  [][ \A cb \in CallbackSpace :
        WatchStore(cb) =>
          ~ ( /\ openW = {}
              /\ \E j \in DOMAIN job :
                   /\ job[j].stop = "close"
                   /\ job[j].pc \in {"scanning", "reading", "storing", "done"} )
    ]_vars

\* C13: stopWatching() cancels the active watch (the watcher it closes is no
\* longer open and its undelivered events are dropped); called with no watch
\* active it completes without an error and changes nothing; and when it
\* returns the indexer holds no watcher.
C13_StopIdempotent ==
  [][ \A j \in DOMAIN job :
        /\ (StartWatchingTool(j) /\ isWatching /\ watcher # 0) =>
             /\ job'[j].pc = "stopping"
             /\ watcher \notin openW'
             /\ \A e \in events' : e.w # watcher
        /\ (StartWatchingTool(j) /\ isWatching /\ watcher = 0) =>
             /\ job'[j].pc = "scanning"
             /\ watcher' = 0
             /\ UNCHANGED <<table, indexedFiles, openW, events, cbs, isWatching>>
        /\ (job[j].pc = "stopping" /\ job'[j].pc # "stopping") =>
             /\ job'[j].pc = "scanning"
             /\ watcher' = 0
    ]_vars

\* a start_watching call went through stopWatching with no watch active, and
\* another one through a stopWatching that closed the watch and returned
C13_Witness ==
  /\ \E j \in DOMAIN job : job[j].pc = "scanning" /\ job[j].stop = "noop"
  /\ \E j \in DOMAIN job :
       job[j].pc = "scanning" /\ job[j].stop = "close" /\ watcher = 0

\* C14: every tool call returns a payload and none fails across the boundary:
\* a call is never left rejected; whatever the store method under a tool
\* throws, and the `Unknown tool` error of a name that is not in the switch,
\* comes back as a payload flagged isError whose text is "Error: " and the
\* message ("Unknown error" when the thrown value is not an Error); a failed
\* update_task_status, index_project or start_watching ends in the handler's
\* catch; every payload returned is flagged isError or not.
C14_NeverThrows ==
  /\ [](call.pc \in {"idle", "thrown", "returned"})
  /\ [](call.pc = "returned" => call.payload.isError \in BOOLEAN)
  /\ [][ /\ (call.pc = "thrown" /\ call' # call) =>
              /\ call'.pc = "returned"
              /\ call'.payload.isError = TRUE
              /\ call'.payload.text =
                    "Error: " \o (IF call.error = Undefined THEN "Unknown error"
                                  ELSE call.error)
         /\ \A name \in ToolNames \ Tools :
              UnknownTool(name) => call'.error = "Unknown tool: " \o name
         /\ \A u \in Updaters :
              (upd[u].pc = "thrown" /\ upd'[u] # upd[u]) =>
                /\ upd'[u].pc = "idle"
                /\ UpdateError(u).isError = TRUE
         /\ \A j \in DOMAIN job :
              (job[j].pc = "thrown" /\ job'[j] # job[j]) =>
                /\ job'[j].pc = "idle"
                /\ IndexError("ENOENT").isError = TRUE
       ]_vars

\* the call of a name that is not in the switch has returned the error payload
C14_Witness ==
  /\ call.pc = "returned"
  /\ call.name = "no_such_tool"
  /\ call.payload = [isError |-> TRUE, text |-> "Error: Unknown tool: no_such_tool"]

\* C15: while initialize() has not completed (this.table is null), every
\* method of the store that is called fails with 'Store not initialized',
\* no update gets past its entry check, and the table is not written: its rows
\* change only by initialize() itself creating it.
C15_NotInitialized ==
  [][ db.pc # "ready" =>
        /\ (call.pc = "idle" /\ call' # call) =>
             /\ call'.pc = "thrown"
             /\ call'.name \in StoreOps
             /\ call'.error = "Store not initialized"
        /\ upd' = upd
        /\ (table' # table) =>
             /\ db.pc = "connecting" /\ db'.pc = "ready"
             /\ table = <<>>
    ]_vars

\* updateTaskStatus was called while initialize() was still connecting, and
\* has thrown
C15_Witness ==
  /\ db.pc = "connecting"
  /\ call.pc = "thrown"
  /\ call.name = "updateTaskStatus"
  /\ call.error = "Store not initialized"

\* the files of a sequence
Range(files) == {files[i] : i \in 1..Len(files)}

C17_SummaryFallback ==
  [][ \A j \in DOMAIN job, reply \in SummaryReplies :
        (IndexStoreSummary(j, reply) /\ reply.kind # "text") =>
          LET f == Head(job[j].files)
              text == MessageTexts(Transcript(f).messages)
              row == table'[Len(table')]
              kept == IF Len(text) <= 5000 THEN Len(text) ELSE 5000
              n == Len(row.content) - Len("\n\n---\n\n") - kept
          IN /\ Len(table') = Len(table) + 1
             /\ row.type = "conversation"
             /\ row.id = ConvId(f)
             /\ f \in indexedFiles'
             /\ job'[j].pc \in {"reading", "done"}
             /\ n = (IF Len(text) <= 500 THEN Len(text) ELSE 500)
             /\ SubSeq(row.content, 1, n) = SubSeq(text, 1, n)
    ]_vars

\* the long transcript f2 was stored with the reply holding no text block: its
\* content is the 500-character fallback, the separator and the messages
C17_Witness ==
  \E i \in 1..Len(table) :
    /\ table[i].id = ConvId("f2")
    /\ Len(MessageTexts(Transcript("f2").messages)) > 500
    /\ Len(table[i].content)
         = 500 + 7 + Len(MessageTexts(Transcript("f2").messages))

-----------------------------------------------------------------------------
\* EmbeddingProvider: the remote calls

\* the texts handed to the provider
EmbedTexts ==
  {"", "of it", "Go, do it!", "Fix the bug", "fix the bug!", "the bug fix"}

\* generateEmbedding is called: with a key it awaits fetch, without one it
\* returns the hash-based embedding
generateEmbedding(e, text) ==
  /\ ext[e].pc = "idle"
  /\ ext' = [ext EXCEPT ![e] =
              IF OPENAI_API_KEY
              THEN [pc |-> "fetching", op |-> "embed", text |-> text,
                    out |-> JsUndefined]
              ELSE [pc |-> "returned", op |-> "embed", text |-> text,
                    out |-> generateSimpleEmbedding(text)]]
  /\ UNCHANGED <<storeVars, indexerVars, db, call, OPENAI_API_KEY>>

\* the embeddings endpoint answers, or the request fails
EmbedResponse(e, reply) ==
  /\ ext[e].pc = "fetching"
  /\ ext' = [ext EXCEPT ![e].pc = "returned",
                        ![e].out = EmbedResult(ext[e].text, reply)]
  /\ UNCHANGED <<storeVars, indexerVars, db, call, OPENAI_API_KEY>>

\* generateSummary is called: it awaits anthropic.messages.create
Summarize(e, text) ==
  /\ ext[e].pc = "idle"
  /\ ext' = [ext EXCEPT ![e] = [pc |-> "requesting", op |-> "summarize",
                                text |-> text, out |-> JsUndefined]]
  /\ UNCHANGED <<storeVars, indexerVars, db, call, OPENAI_API_KEY>>

\* the messages endpoint answers, or the request fails
SummaryResponse(e, reply) ==
  /\ ext[e].pc = "requesting"
  /\ ext' = [ext EXCEPT ![e].pc = "returned",
                        ![e].out = JsString(generateSummary(ext[e].text, reply))]
  /\ UNCHANGED <<storeVars, indexerVars, db, call, OPENAI_API_KEY>>

\* the caller takes the value
ExtReturn(e) ==
  /\ ext[e].pc = "returned"
  /\ ext' = [ext EXCEPT ![e] = IdleExt]
  /\ UNCHANGED <<storeVars, indexerVars, db, call, OPENAI_API_KEY>>

\* a process started with or without OPENAI_API_KEY
InitEmbed ==
  /\ clock = 1
  /\ table = <<SeedEntry(1)>>
  /\ upd = [u \in Updaters |-> IdleUpd]
  /\ disk = [f \in Files |-> "absent"]
  /\ indexedFiles = {}
  /\ watcher = 0
  /\ openW = {}
  /\ events = {}
  /\ cbs = {}
  /\ job = [j \in Jobs |-> IdleJob]
  /\ isWatching = FALSE
  /\ db = ReadyDb
  /\ call = IdleCall
  /\ OPENAI_API_KEY \in BOOLEAN
  /\ ext = [e \in Callers |-> IdleExt]

NextEmbed ==
  \/ \E e \in Callers, text \in EmbedTexts : generateEmbedding(e, text)
  \/ \E e \in Callers, reply \in EmbedReplies : EmbedResponse(e, reply)
  \/ \E e \in Callers : ExtReturn(e)

SpecEmbed == InitEmbed /\ [][NextEmbed]_vars

\* C18: generateEmbedding never propagates a remote failure. With a key, every
\* reply other than a well-formed embedding (a rejected fetch, a response that
\* is not ok, a malformed body) makes it return the hash-based embedding of
\* the same text; without a key it never awaits a request and returns the
\* hash-based embedding at once.
C18_EmbedFallsBack ==
  [][ \A e \in DOMAIN ext :
        /\ \A reply \in EmbedFailures :
             EmbedResponse(e, reply) =>
               /\ ext'[e].pc = "returned"
               /\ ext'[e].out = generateSimpleEmbedding(ext[e].text)
        /\ \A text \in EmbedTexts :
             (generateEmbedding(e, text) /\ ~OPENAI_API_KEY) =>
               /\ ext'[e].pc = "returned"
               /\ ext'[e].out = generateSimpleEmbedding(text)
    ]_vars

-----------------------------------------------------------------------------
\* the provider and start_watching with the scheduling the runtime guarantees:
\* a continuation that is ready to run is run (the resolution of
\* watcher.close() included, which is local), while nothing makes a remote
\* service answer or a caller call

\* the steps of a start_watching call that need nothing from outside; with one
\* call at a time stopWatching has cleared this.watcher before startWatching
\* looks at it
Continue(j) ==
  \/ StopWatchingResume(j)
  \/ indexProjectConversations(j)
  \/ IndexProjectThrow(j)
  \/ IndexCatch(j)
  \/ StartWatching(j)
  \/ SetWatching(j)

\* one caller of the provider beside one caller of start_watching
InitBounded ==
  /\ clock = 1
  /\ table = <<SeedEntry(1)>>
  /\ upd = [u \in Updaters |-> IdleUpd]
  /\ disk = [f \in Files |-> "absent"]
  /\ indexedFiles = {}
  /\ watcher = 0
  /\ openW = {}
  /\ events = {}
  /\ cbs = {}
  /\ job = [j \in Jobs |-> IdleJob]
  /\ isWatching = FALSE
  /\ db = ReadyDb
  /\ call = IdleCall
  /\ OPENAI_API_KEY \in BOOLEAN
  /\ ext = [e \in {"e1"} |-> IdleExt]

NextBounded ==
  \/ \E e \in DOMAIN ext, text \in EmbedTexts : generateEmbedding(e, text)
  \/ \E e \in DOMAIN ext, reply \in EmbedReplies : EmbedResponse(e, reply)
  \/ \E e \in DOMAIN ext, text \in EmbedTexts : Summarize(e, text)
  \/ \E e \in DOMAIN ext, reply \in SummaryReplies : SummaryResponse(e, reply)
  \/ \E e \in DOMAIN ext : ExtReturn(e)
  \/ \E j \in Jobs : StartWatchingTool(j)
  \/ \E j \in Jobs : Continue(j)

SpecBounded ==
  /\ InitBounded
  /\ [][NextBounded]_vars
  /\ WF_vars(ExtReturn("e1"))
  /\ \A j \in Jobs : WF_vars(Continue(j))

\* C19: every external call is bounded. A generateEmbedding call that awaits
\* fetch and a generateSummary call that awaits messages.create each
\* eventually return, and a startWatching call eventually has its watcher,
\* whatever the remote services and the watch do.
C19_Bounded ==
  /\ (ext["e1"].pc = "fetching") ~> (ext["e1"].pc = "returned")
  /\ (ext["e1"].pc = "requesting") ~> (ext["e1"].pc = "returned")
  /\ \A j \in Jobs : (job[j].pc = "done") ~> (job[j].pc = "started")

\* C21: for the empty text and for every text whose pieces (after lowercasing,
\* stripping punctuation and splitting on white space) all have at most 2
\* characters, the hash-based embedding is the all-zero array of length 1536,
\* with no entry divided by a magnitude: on the path without a key and on
\* every fallback after a failed request.
C21_ZeroVector ==
  [][ \A e \in DOMAIN ext :
        LET short(text) ==
              \A w \in Range(Split(Strip(text))) : Len(w) <= 2
            zero(v) == /\ v.type = "array"
                       /\ v.length = 1536
                       /\ v.entries = <<>>
                       /\ v.norm2 = <<1, 1>>
        IN /\ \A text \in EmbedTexts :
                (generateEmbedding(e, text) /\ ~OPENAI_API_KEY /\ short(text))
                  => zero(ext'[e].out)
           /\ \A reply \in EmbedReplies :
                (EmbedResponse(e, reply) /\ LeavesTry(reply) /\ short(ext[e].text))
                  => zero(ext'[e].out)
    ]_vars

\* the zero array was returned for a text that is not empty: "Go, do it!" has
\* the pieces go, do, it
C21_Witness ==
  \E e \in DOMAIN ext :
    /\ ext[e].pc = "returned"
    /\ ext[e].op = "embed"
    /\ ext[e].text = "Go, do it!"
    /\ ext[e].out.type = "array"
    /\ ext[e].out.entries = <<>>

-----------------------------------------------------------------------------
\* the store's writes in a process started with or without OPENAI_API_KEY

NextVectors ==
  \/ \E a \in TaskArgs : CreateTask(a)
  \/ \E a \in DocArgs : StoreDocument(a)
  \/ \E a \in DecisionArgs : StoreDecision(a)
  \/ \E id \in CallerIds, st \in Statuses : UpdateRead("u1", id, st)
  \/ UpdateDelete("u1")
  \/ UpdateReinsert("u1")
  \/ UpdateCatch("u1")

SpecVectors == InitEmbed /\ [][NextVectors]_vars

\* C22: every row of the table has a vector that is an array of exactly 1536
\* numbers, the length of the seed record's vector, whether the vector came
\* from the embeddings endpoint, from the hash-based embedding, or with the
\* record that updateTaskStatus adds again.
C22_VectorLength ==
  \A i \in 1..Len(table) :
    /\ table[i].vector.type = "array"
    /\ table[i].vector.length = 1536

-----------------------------------------------------------------------------
\* search and the summaries on a store that is initialized and then filled

\* a content longer than the preview, made of words too short to count
LongContent == Repeat("ab cd ef gh ", 50)

\* argument objects of the store_document tool with few words
SearchDocArgs ==
  { [title |-> "API notes", content |-> "v1", tags |-> <<"api">>,
     projectPath |-> Undefined],
    [title |-> "Log", content |-> LongContent, tags |-> Undefined,
     projectPath |-> "/p"] }

\* arguments of search_context and of get_project_summary
Queries == {"", "api", "notes log api"}
Limits == {1, 2}
TypeFilters == {Undefined, "all", "document", "decision"}
ProjectPaths == {"/p", "", "/q"}

NextSearch ==
  \/ InitializeConnect
  \/ InitializeOpen
  \/ Tick
  \/ \E a \in SearchDocArgs : StoreDocument(a)
  \/ \E a \in DecisionArgs : StoreDecision(a)
  \/ \E a \in TaskArgs : CreateTask(a)

SpecSearch == InitStore /\ [][NextSearch]_vars

\* the rows of tbl other than the seed record
NotSeed(tbl) == SelectSeq(tbl, LAMBDA e : e.id # "init")

\* C23: the seed record (id 'init') is never surfaced: it is in no search
\* result, and getStats and getProjectSummary count the stored entries without
\* it.
C23_SeedHidden ==
  Initialized(db) =>
    /\ \A q \in Queries, limit \in Limits, type \in TypeFilters :
         \A i \in DOMAIN search(table, q, limit, type) :
           search(table, q, limit, type)[i].id # "init"
    /\ getStats(table).totalEntries = Len(NotSeed(table))
    /\ getStats(table).decisions = CountType(NotSeed(table), "decision")
    /\ \A P \in ProjectPaths :
         /\ getProjectSummary(table, P).stats.totalDecisions
              = CountType(SelectSeq(NotSeed(table), LAMBDA e : e.projectPath = P),
                          "decision")
         /\ \A i \in DOMAIN getProjectSummary(table, P).recentDecisions :
              getProjectSummary(table, P).recentDecisions[i].title # "Initial entry"

\* C24: the content preview of every search result has at most 500
\* characters, whatever the length of the stored content.
C24_PreviewLength ==
  Initialized(db) =>
    \A q \in Queries, limit \in Limits, type \in TypeFilters :
      \A i \in DOMAIN search(table, q, limit, type) :
        Len(search(table, q, limit, type)[i].content) <= 500

-----------------------------------------------------------------------------
\* the delete tools on a table that holds a task and a document

NextDelete ==
  \/ \E name \in DeleteTools, id \in CallerIds : DeleteTool(name, id)
  \/ ToolReturn
  \/ Tick
  \/ \E a \in TaskArgs : CreateTask(a)
  \/ \E a \in DocArgs : StoreDocument(a)

SpecDelete == InitDispatch /\ [][NextDelete]_vars

\* C25: delete_task and delete_document called with an id that no stored
\* entry has return an error-flagged payload, not a report of success.
C25_DeleteNotFound ==
  [][ \A name \in DeleteTools, id \in CallerIds :
        (DeleteTool(name, id) /\ RowsWithId(table, id) = <<>>) =>
          call'.payload.isError
    ]_vars

-----------------------------------------------------------------------------
\* the number of rows of tbl equal to e
CountRow(tbl, e) == Len(SelectSeq(tbl, LAMBDA r : r = e))

\* the fields an update_task_status call may change
Mutable == {"status", "timestamp"}

\* C26: a completed updateTaskStatus(id, s), run with no concurrent operation,
\* changes only the status and timestamp of the task with that id: the row it
\* writes back has every other field (vector included) of the task, its delete
\* takes exactly that one row out and its add puts exactly one row back, so
\* every other entry and the number of entries are as before the call; and
\* every other operation only appends a row or removes rows, it never changes
\* a field of a stored row.
C26_OnlyStatusChanges ==
  [][ /\ UpdateDelete("u1") =>
           LET old == FindFirst(table, upd["u1"].taskId, "task")
           IN /\ \A f \in (DOMAIN old) \ Mutable : upd["u1"].task[f] = old[f]
              /\ Len(table') = Len(table) - 1
              /\ \A i \in 1..Len(table) :
                   table[i] # old =>
                     CountRow(table', table[i]) = CountRow(table, table[i])
      /\ UpdateReinsert("u1") =>
           /\ Len(table') = Len(table) + 1
           /\ SubSeq(table', 1, Len(table)) = table
           /\ table'[Len(table')] = upd["u1"].task
      /\ ~(UpdateDelete("u1") \/ UpdateReinsert("u1")) =>
           \/ /\ Len(table') >= Len(table)
              /\ SubSeq(table', 1, Len(table)) = table
           \/ \A i \in 1..Len(table') :
                CountRow(table', table'[i]) <= CountRow(table, table'[i])
    ]_vars

-----------------------------------------------------------------------------
\* every operation that writes a row, one call at a time, on a store that
\* creates its table or opens the one an earlier run left

Quiet == upd["u1"].pc = "idle" /\ \A j \in Jobs : job[j].pc = "idle"

\* the calls that leave the optional tags argument out
OptionalOmitted(args) == {a \in args : a.tags = Undefined}

NextFields ==
  \/ InitializeConnect
  \/ InitializeOpen
  \/ Tick
  \/ Quiet /\ \E a \in OptionalOmitted(TaskArgs) : CreateTask(a)
  \/ Quiet /\ \E a \in OptionalOmitted(DocArgs) : StoreDocument(a)
  \/ Quiet /\ \E a \in DecisionArgs : StoreDecision(a)
  \/ Quiet /\ \E a \in CodeArgs : StoreCodeContext(a)
  \/ Quiet /\ \E id \in CallerIds, st \in Statuses : UpdateRead("u1", id, st)
  \/ UpdateDelete("u1")
  \/ UpdateReinsert("u1")
  \/ UpdateCatch("u1")
  \/ Quiet /\ \E id \in CallerIds : DeleteTask(id)
  \/ Quiet /\ Initialized(db) /\ \E j \in Jobs : IndexProject(j, TRUE)
  \/ \E j \in Jobs : indexProjectConversations(j)
  \/ \E j \in Jobs : IndexRead(j)
  \/ \E j \in Jobs : IndexStore(j)
  \/ \E j \in Jobs : IndexReturn(j)
  \/ Quiet /\ FileAdd("f1", "ok")

SpecFields == InitStore /\ [][NextFields]_vars

\* C27: in every reachable state a stored entry has a status and a priority
\* exactly when its type is task; an entry of any other type (conversation,
\* decision, code, document, the seed record) has neither.
C27_TaskFields ==
  \A i \in 1..Len(table) :
    /\ table[i].type = "task" <=>
         (table[i].status # Undefined /\ table[i].priority # Undefined)
    /\ table[i].type # "task" =>
         (table[i].status = Undefined /\ table[i].priority = Undefined)

\* a task created without a priority and since updated stands next to an
\* entry of another type
C27_Witness ==
  \E i, k \in 1..Len(table) :
    /\ table[i].type = "task"
    /\ table[i].status = "completed"
    /\ table[i].priority = "medium"
    /\ table[k].type \in {"conversation", "code", "document", "decision"}
    /\ table[k].id # "init"

-----------------------------------------------------------------------------
\* one start_watching call, after which the external agent writes transcripts,
\* some of them malformed, and rewrites them

NextWatchFail ==
  \/ \E j \in Jobs : ~isWatching /\ watcher = 0 /\ StartWatchingTool(j)
  \/ \E j \in Jobs : indexProjectConversations(j)
  \/ \E j \in Jobs : StartWatching(j)
  \/ \E j \in Jobs : SetWatching(j)
  \/ \E f \in Files, st \in FileStates : openW # {} /\ FileAdd(f, st)
  \/ \E f \in Files, st \in FileStates : FileChange(f, st)
  \/ \E e \in EventSpace : WatchRead(e)
  \/ \E cb \in CallbackSpace : WatchStore(cb)
  \/ \E cb \in CallbackSpace : WatchStoreThrow(cb)
  \/ Tick

SpecWatchFail == Init /\ [][NextWatchFail]_vars

\* what a step that handles a failure inside a watch callback leaves alone:
\* the watchers, the in-flight tool calls, the table and the indexed-file set
Caught ==
  /\ openW' = openW
  /\ watcher' = watcher
  /\ isWatching' = isWatching
  /\ job' = job
  /\ call' = call
  /\ table' = table
  /\ indexedFiles' = indexedFiles

\* C28: a failure inside a watch-triggered re-index (the file cannot be read
\* or parsed, or the store rejects the row) is caught in the callback: no tool
\* call sees it, the watcher stays open, the events already emitted stay
\* queued, every later add or change of a transcript is queued for each open
\* watcher, and a handler that reads a parseable file stores its row.
C28_WatchFailureCaught ==
  [][ /\ \A e \in EventSpace :
           (WatchRead(e) /\ disk[e.file] # "ok") =>
             Caught /\ events' = events \ {e} /\ cbs' = cbs
      /\ \A cb \in CallbackSpace :
           WatchStoreThrow(cb) => Caught /\ events' = events
      /\ \A f \in Files :
           disk'[f] # disk[f] =>
             \A w \in openW : \E e \in events' : e.w = w /\ e.file = f
      /\ \A e \in EventSpace :
           (WatchRead(e) /\ disk[e.file] = "ok") =>
             [kind |-> e.kind, file |-> e.file] \in cbs'
      /\ \A cb \in CallbackSpace :
           WatchStore(cb) => RowsWithId(table', ConvId(cb.file)) # <<>>
    ]_vars

\* the add handler of f1 failed and was caught; the watcher is still open, and
\* the change handler of the rewritten f1 has stored its row
C28_Witness ==
  /\ openW # {}
  /\ isWatching
  /\ disk["f1"] = "ok"
  /\ "f1" \notin indexedFiles
  /\ RowsWithId(table, ConvId("f1")) # <<>>
  /\ \A e \in events : e.file # "f1"
  /\ \A cb \in cbs : cb.file # "f1"

-----------------------------------------------------------------------------
\* the filters a caller of list_tasks and list_documents can pass

ListPaths == {Undefined, "", "/p", "/q"}
ListStatuses == {Undefined} \cup Statuses
ListTags == <<Undefined, <<>>, <<"api">>, <<"x", "api">>, <<"x">>>>

\* a sequence ordered by timestamp, most recent first
Descending(rows) ==
  \A i, k \in 1..Len(rows) : i < k => rows[i].timestamp >= rows[k].timestamp

\* two sequences holding the same rows the same number of times
SameRows(a, b) ==
  /\ Len(a) = Len(b)
  /\ \A i \in 1..Len(a) : CountRow(a, a[i]) = CountRow(b, a[i])

\* the stored tasks that match the project path and status, where `pathGiven`
\* and `statusGiven` say which filters the call gave
MatchingTasks(tbl, projectPath, pathGiven, status, statusGiven) ==
  LET rows == SelectSeq(tbl, LAMBDA e :
                /\ e.type = "task"
                /\ pathGiven => e.projectPath = projectPath
                /\ statusGiven => e.status = status)
  IN [i \in 1..Len(rows) |-> TaskView(rows[i])]

\* the stored documents that match the project path and share a tag with `tags`
MatchingDocuments(tbl, projectPath, pathGiven, tags, tagsGiven) ==
  LET rows == SelectSeq(tbl, LAMBDA e :
                /\ e.type = "document"
                /\ pathGiven => e.projectPath = projectPath
                /\ tagsGiven => \E i \in 1..Len(tags), k \in 1..Len(e.tags) :
                                  e.tags[k] = tags[i])
  IN [i \in 1..Len(rows) |-> DocView(rows[i])]

\* C29 as stated: list_tasks(projectPath?, status?) returns exactly the stored
\* tasks that match every filter the call passes, list_documents(projectPath?,
\* tags?) exactly the stored documents that match the passed project path and
\* share at least one tag with the passed tags, both by timestamp descending.
C29_ListExact ==
  \A projectPath \in ListPaths :
    /\ \A status \in ListStatuses :
         LET tasks == ListTasks(table, projectPath, status)
         IN /\ Descending(tasks)
            /\ SameRows(tasks, MatchingTasks(table, projectPath,
                                 projectPath # Undefined, status, status # Undefined))
    /\ \A t \in 1..Len(ListTags) :
         LET tags == ListTags[t]
             documents == ListDocuments(table, projectPath, tags)
         IN /\ Descending(documents)
            /\ SameRows(documents, MatchingDocuments(table, projectPath,
                                     projectPath # Undefined, tags, tags # Undefined))

\* C29 amended: a project path that is omitted or the empty string, a status
\* that is omitted, and tags that are omitted or an empty list are no filter;
\* list_tasks returns exactly the stored tasks that match the project path and
\* status filters, list_documents exactly the stored documents that match the
\* project path filter and share at least one tag with the tags filter; both
\* lists are by timestamp descending and hold no entry of another type.
C29_ListExactAmended ==
  \A projectPath \in ListPaths :
    LET pathGiven == projectPath # Undefined /\ projectPath # ""
    IN /\ \A status \in ListStatuses :
            LET tasks == ListTasks(table, projectPath, status)
            IN /\ Descending(tasks)
               /\ SameRows(tasks, MatchingTasks(table, projectPath, pathGiven,
                                    status, status # Undefined))
       /\ \A t \in 1..Len(ListTags) :
            LET tags == ListTags[t]
                documents == ListDocuments(table, projectPath, tags)
            IN /\ Descending(documents)
               /\ SameRows(documents, MatchingDocuments(table, projectPath,
                              pathGiven, tags, tags # Undefined /\ Len(tags) > 0))

\* two documents are stored, the later one first in the unfiltered list, and
\* the tag filter keeps one of them
C29_Witness ==
  LET all == ListDocuments(table, Undefined, Undefined)
  IN /\ Len(all) = 2
     /\ all[1].timestamp > all[2].timestamp
     /\ Len(ListDocuments(table, Undefined, <<"x", "api">>)) = 1
     /\ Len(ListDocuments(table, "/p", <<>>)) = 1

-----------------------------------------------------------------------------
\* the five entry types, and the type each field of the summary's stats counts
EntryTypes == {"conversation", "decision", "code", "task", "document"}

StatOf ==
  [totalConversations |-> "conversation", totalDecisions |-> "decision",
   totalCodeContexts |-> "code"]

\* the stored entries of the given type whose projectPath is projectPath
OfProject(tbl, projectPath, type) ==
  SelectSeq(tbl, LAMBDA e : e.projectPath = projectPath /\ e.type = type)

\* C30: getProjectSummary(P) returns, over the stored entries whose
\* projectPath is P, a count for each of the five entry types, and the 5 most
\* recent conversations and the 5 most recent decisions of P (all of them when
\* there are fewer), most recent first.
C30_SummaryCounts ==
  Initialized(db) =>
    \A P \in ProjectPaths :
      LET summary == getProjectSummary(table, P)
      IN /\ \A type \in EntryTypes :
              \E f \in DOMAIN summary.stats :
                /\ StatOf[f] = type
                /\ summary.stats[f] = Len(OfProject(table, P, type))
         /\ Len(summary.recentConversations) =
              Min(RecentCount, Len(OfProject(table, P, "conversation")))
         /\ Descending(summary.recentConversations)
         /\ Len(summary.recentDecisions) =
              Min(RecentCount, Len(OfProject(table, P, "decision")))

-----------------------------------------------------------------------------
\* search on a store that is initialized and then filled with short texts

RankDocArgs ==
  { [title |-> "API notes", content |-> "v1", tags |-> <<"api">>,
     projectPath |-> Undefined],
    [title |-> "Log", content |-> "api log", tags |-> Undefined,
     projectPath |-> "/p"] }

NextRank ==
  \/ InitializeConnect
  \/ InitializeOpen
  \/ Tick
  \/ \E a \in RankDocArgs : StoreDocument(a)
  \/ \E a \in DecisionArgs : StoreDecision(a)
  \/ \E a \in TaskArgs : CreateTask(a)

SpecRank == InitStore /\ [][NextRank]_vars

\* how near each row of tbl is to the query vector q
Nears(tbl, q) == [i \in 1..Len(tbl) |-> Nearness(q, RowVector(tbl[i]))]

\* the rank of row i by distance to the query: the number of rows nearer than
\* it, or as near and earlier in the table
Rank(nears, i) ==
  Cardinality({k \in DOMAIN nears :
                 \/ FracLess(nears[i], nears[k])
                 \/ nears[k] = nears[i] /\ k < i})

\* the type filter of a search is in force
Filtering(type) == type # Undefined /\ type # "all"

\* the rows a search is to return: those of the 2 * limit nearest that pass
\* the type filter, fewer than `limit` of which are nearer
Wanted(tbl, nears, limit, type) ==
  LET window == {i \in 1..Len(tbl) :
                   /\ Rank(nears, i) < 2 * limit
                   /\ Filtering(type) => tbl[i].type = type}
  IN {i \in window :
        Cardinality({k \in window : Rank(nears, k) < Rank(nears, i)}) < limit}

\* C31: search(query, limit, type) returns exactly the first `limit` entries,
\* nearest first, of the 2 * limit nearest neighbours that pass the type
\* filter: at most `limit` entries, each of the requested type when a type
\* other than 'all' is given, each with score 1 - distance, scores descending;
\* an entry that matches but is not among the 2 * limit nearest is not
\* returned, even when fewer than `limit` entries are.
C31_SearchTopK ==
  Initialized(db) =>
    \A query \in Queries :
      LET nears == Nears(table, generateSimpleEmbedding(query))
      IN \A limit \in Limits, type \in TypeFilters :
           LET found == search(table, query, limit, type)
               wanted == Wanted(table, nears, limit, type)
           IN /\ Len(found) <= limit
              /\ Len(found) = Cardinality(wanted)
              /\ \A n \in 1..Len(found) :
                   \E i \in wanted :
                     /\ Cardinality({k \in wanted : Rank(nears, k) < Rank(nears, i)})
                          = n - 1
                     /\ found[n].id = table[i].id
                     /\ found[n].type = table[i].type
                     /\ found[n].title = table[i].title
                     /\ found[n].timestamp = table[i].timestamp
                     /\ Filtering(type) => found[n].type = type
                     /\ Rank(nears, i) < 2 * limit
                     /\ IF nears[i] = <<1, 1>>
                        THEN found[n].score = [oneMinus |-> Distance(<<1, 1>>)]
                        ELSE found[n].score = [oneMinus |-> Distance(nears[i])]
              /\ \A n, m \in 1..Len(found) :
                   n < m => ~FracLess(found[n].score.oneMinus.near,
                                      found[m].score.oneMinus.near)

\* a stored document matches the type filter but is the third nearest to the
\* query: a search of limit 1 returns nothing, while a search of limit 2
\* returns it
C31_Witness ==
  /\ Initialized(db)
  /\ \E i \in 1..Len(table) :
       /\ table[i].type = "document"
       /\ Rank(Nears(table, generateSimpleEmbedding("")), i) = 2
  /\ search(table, "", 1, "document") = <<>>
  /\ Len(search(table, "", 2, "document")) = 1
  /\ Len(search(table, "api", 2, Undefined)) = 2

-----------------------------------------------------------------------------
\* the watch of start_watching(ProjectPath) while another project of the same
\* user gets transcripts. chokidar.watch(projectsDir, {depth: 3}) watches
\* ~/.claude/projects, the parent of every project's directory, and the
\* handlers keep every path that ends in .json and contains 'conversations'.

\* a transcript <other project dir>/conversations/g1.json
OtherFiles == {"g1"}
WatchedFiles == Files \cup OtherFiles

InitForeign ==
  /\ clock = 1
  /\ table = <<SeedEntry(1)>>
  /\ upd = [u \in Updaters |-> IdleUpd]
  /\ disk = [f \in WatchedFiles |-> "absent"]
  /\ indexedFiles = {}
  /\ watcher = 0
  /\ openW = {}
  /\ events = {}
  /\ cbs = {}
  /\ job = [j \in Jobs |-> IdleJob]
  /\ isWatching = FALSE
  /\ db = ReadyDb
  /\ call = IdleCall
  /\ OPENAI_API_KEY = FALSE
  /\ ext = [e \in Callers |-> IdleExt]

NextForeign ==
  \/ \E j \in Jobs : ~isWatching /\ watcher = 0 /\ StartWatchingTool(j)
  \/ \E j \in Jobs : indexProjectConversations(j)
  \/ \E j \in Jobs : IndexRead(j)
  \/ \E j \in Jobs : IndexStore(j)
  \/ \E j \in Jobs : StartWatching(j)
  \/ \E j \in Jobs : SetWatching(j)
  \/ \E f \in WatchedFiles : FileAdd(f, "ok")
  \/ \E f \in OtherFiles : FileChange(f, "ok")
  \/ \E e \in [w : WatcherIds, kind : {"add", "change"}, file : WatchedFiles] :
       WatchRead(e)
  \/ \E cb \in [kind : {"add", "change"}, file : WatchedFiles] : WatchStore(cb)

SpecForeign == InitForeign /\ [][NextForeign]_vars

\* C32: while the watch started by startWatching(P) is active, only the
\* transcripts of P's own project directory are re-indexed: every stored
\* conversation of project P is the transcript of a file of that directory,
\* and no callback runs for a file of another project's directory.
C32_OwnProjectOnly ==
  /\ \A cb \in cbs : cb.file \in Files
  /\ \A i \in 1..Len(table) :
       (table[i].type = "conversation" /\ table[i].projectPath = ProjectPath) =>
         \E f \in Files : table[i].id = ConvId(f)

-----------------------------------------------------------------------------
\* index_project calls, one after the other, on a projects directory that
\* lists up to MaxProjects of these directories; "621" is the name the hash
\* gives "/p" (47 * 31 + 112 = 1569) and "611e0106" the one it gives
\* "/srv/app", whose hash is negative (-1629356294)

MaxProjects == 2

ProjectDirs ==
  { [name |-> "p", settings |-> "missing", conversations |-> "dir"],
    [name |-> "app", settings |-> "/srv/app", conversations |-> "unreadable"],
    [name |-> "x1", settings |-> "/p", conversations |-> "dir"],
    [name |-> "x2", settings |-> "/p", conversations |-> "missing"],
    [name |-> "srv", settings |-> "/other", conversations |-> "dir"],
    [name |-> "x3", settings |-> "malformed", conversations |-> "dir"],
    [name |-> "621", settings |-> "missing", conversations |-> "unreadable"],
    [name |-> "611e0106", settings |-> "/other", conversations |-> "dir"] }

Listings ==
  {l \in UNION {[1..n -> ProjectDirs] : n \in 0..MaxProjects} :
     \A i, k \in 1..Len(l) : l[i].name = l[k].name => i = k}

ResolvePaths == {"/p", "/srv/app"}

InitResolve ==
  /\ clock = 1
  /\ table = <<SeedEntry(1)>>
  /\ upd = [u \in Updaters |-> IdleUpd]
  /\ disk = [f \in Files |-> IF f = "f1" THEN "ok" ELSE "absent"]
  /\ indexedFiles = {}
  /\ watcher = 0
  /\ openW = {}
  /\ events = {}
  /\ cbs = {}
  /\ job = [j \in Jobs |-> IdleJob]
  /\ isWatching = FALSE
  /\ db = ReadyDb
  /\ call = IdleCall
  /\ OPENAI_API_KEY = FALSE
  /\ ext = [e \in Callers |-> IdleExt]

NextResolve ==
  \/ \E j \in Jobs, force \in BOOLEAN, projectPath \in ResolvePaths,
         projects \in Listings : IndexProjectIn(j, force, projectPath, projects)
  \/ \E j \in Jobs : indexProjectConversations(j)
  \/ \E j \in Jobs : IndexRead(j)
  \/ \E j \in Jobs : IndexStore(j)
  \/ \E j \in Jobs : IndexReturn(j)
  \/ \E j \in Jobs : IndexCatch(j)

SpecResolve == InitResolve /\ [][NextResolve]_vars

\* the first index of a set of indices
First(is) == CHOOSE i \in is : \A k \in is : i <= k

\* the directories of a listing that carry the name the hash gives the path
HashDirs(projects, projectPath) ==
  {i \in 1..Len(projects) : projects[i].name = hashProjectPath(projectPath)}

\* an index_project call takes its first step
Resolves(j) == job[j].pc = "idle" /\ job'[j].pc # "idle"

-----------------------------------------------------------------------------
\* hashString and the bucket of a word

\* texts whose words hash to positive and to negative values; "xfjfxtf"
\* hashes to -2^31
HashTexts ==
  {"", "of it", "fix the bug", "xfjfxtf", "xfjfxtf bug", "zzzzzz fix",
   "index 2024"}

NextHash ==
  \/ \E e \in Callers, text \in HashTexts : generateEmbedding(e, text)
  \/ \E e \in Callers, reply \in EmbedReplies : EmbedResponse(e, reply)
  \/ \E e \in Callers : ExtReturn(e)

SpecHash == InitEmbed /\ [][NextHash]_vars

\* hash * 31 + char over the characters of a string, from 0
RECURSIVE TimesBits(_, _)
TimesBits(str, h) ==
  IF str = "" THEN h ELSE TimesBits(Tail(str), TimesStep(h, CharCode(Head(str))))

\* the words hashed for the text a caller handed over
Hashed(e) ==
  IF ext[e].op = "embed" /\ ext[e].pc = "returned"
  THEN {Words(ext[e].text)[i] : i \in 1..Len(Words(ext[e].text))}
  ELSE {}

\* C34: for every word hashed, the hash computed as ((hash << 5) - hash) +
\* charCode with the 32-bit wrap is hash * 31 + charCode wrapped to signed 32
\* bits, and the bucket abs(hash) mod EMBEDDING_DIM is an index in
\* 0..EMBEDDING_DIM-1, also for a word whose hash is -2^31; every entry of the
\* hash-based embedding returned sits at such an index.
C34_HashWrap ==
  \A e \in DOMAIN ext :
    /\ \A w \in Hashed(e) :
         /\ hashString(w) = Signed(TimesBits(w, [hi |-> 0, lo |-> 0]))
         /\ Position(hashString(w)) \in 0..(EMBEDDING_DIM - 1)
    /\ (ext[e].pc = "returned" /\ ext[e].out.type = "array") =>
         \A i \in 1..Len(ext[e].out.entries) :
           ext[e].out.entries[i][1] \in 0..(EMBEDDING_DIM - 1)

\* a caller holds the hash-based embedding of a text with a word whose hash is
\* -2^31, and another that of a text with words of positive and negative hash
C34_Witness ==
  \E e, d \in DOMAIN ext :
    /\ \E w \in Hashed(e) : hashString(w) = (-2147483647) - 1
    /\ ext[e].out = generateSimpleEmbedding(ext[e].text)
    /\ \E w \in Hashed(d) : hashString(w) > 0
    /\ \E w \in Hashed(d) : hashString(w) < 0 /\ hashString(w) > (-2147483647) - 1

-----------------------------------------------------------------------------
\* initialize() called again, entries stored between the calls

\* initialize() on a store that is already initialized: mkdir, connect and
\* tableNames() again
InitializeAgain ==
  /\ Initialized(db)
  /\ db' = [db EXCEPT !.pc = "connecting", !.found = db.exists]
  /\ UNCHANGED <<storeVars, indexerVars, call, extVars>>

\* the process ends and a new one constructs its ContextStore on the same
\* directory
Restart ==
  /\ Initialized(db)
  /\ db' = [db EXCEPT !.pc = "new", !.found = FALSE]
  /\ UNCHANGED <<storeVars, indexerVars, call, extVars>>

NextInit ==
  \/ InitializeConnect
  \/ InitializeOpen
  \/ InitializeAgain
  \/ Restart
  \/ Tick
  \/ \E a \in TaskArgs : CreateTask(a)
  \/ \E a \in DocArgs : StoreDocument(a)

SpecInit == InitStore /\ [][NextInit]_vars

\* the seed records of a table
Seeds(tbl) == SelectSeq(tbl, LAMBDA e : e.id = "init")

\* C35: a call of initialize() that finds no index creates it with the seed
\* record alone, and a call that finds the index leaves every entry as it is;
\* with entries stored between the calls, after any number of sequential
\* calls the store holds exactly one seed record.
C35_InitializeIdempotent ==
  /\ [][ (db.pc = "connecting" /\ db'.pc = "ready") =>
           IF db.exists THEN table' = table
           ELSE Len(table') = 1 /\ Len(Seeds(table')) = 1 ]_vars
  /\ [](Initialized(db) => Len(Seeds(table)) = 1)

\* initialize() has opened an index that holds the seed and the task of an
\* earlier run, and an entry has been stored since
C35_Witness ==
  /\ Initialized(db)
  /\ db.found
  /\ Len(table) = 3
  /\ \E i \in 1..Len(table) : table[i].type = "task" /\ table[i].timestamp = 0
  /\ \E i \in 1..Len(table) : table[i].timestamp = clock /\ table[i].type = "document"

-----------------------------------------------------------------------------
\* start_watching calls one after the other

\* one client: a start_watching call returns before the next is made, while
\* the external agent creates transcripts
NextWatchSeq ==
  \/ StartWatchingTool("j1")
  \/ StopWatchingResume("j1")
  \/ indexProjectConversations("j1")
  \/ IndexProjectThrow("j1")
  \/ IndexCatch("j1")
  \/ IndexRead("j1")
  \/ IndexStore("j1")
  \/ StartWatching("j1")
  \/ SetWatching("j1")
  \/ \E f \in Files, st \in FileStates : FileAdd(f, st)
  \/ \E e \in EventSpace : WatchRead(e)
  \/ \E cb \in CallbackSpace : WatchStore(cb)

SpecWatchSeq == Init /\ [][NextWatchSeq]_vars

\* the indexer holds a watch that is open
ActiveWatch == watcher # 0 /\ watcher \in openW

\* C36: whenever no start_watching call is in flight, the isWatching flag that
\* get_memory_status reports is true exactly when the indexer holds an active
\* watch, also after a call that stopped the watch and then failed in
\* indexProject.
C36_FlagMatchesWatch ==
  (\A j \in DOMAIN job : job[j].pc = "idle") => (isWatching <=> ActiveWatch)

-----------------------------------------------------------------------------
\* delete_task while an update_task_status call is in flight

\* two clients: one updates the status of a task, the other deletes tasks and
\* creates them; a create is not issued before the delete has answered
NextDeleteRace ==
  \/ \E id \in CallerIds, st \in Statuses : UpdateRead("u1", id, st)
  \/ UpdateDelete("u1")
  \/ UpdateReinsert("u1")
  \/ UpdateCatch("u1")
  \/ \E id \in CallerIds : DeleteTool("delete_task", id)
  \/ ToolReturn
  \/ Tick
  \/ call.pc = "idle" /\ \E a \in TaskArgs : CreateTask(a)

SpecDeleteRace == InitDispatch /\ [][NextDeleteRace]_vars

\* the delete_task call for id has produced its answer, which the client has
\* not taken yet
DeleteAnswered(id) ==
  /\ call.pc = "returned"
  /\ call.name = "delete_task"
  /\ call.payload = Ok("Task " \o id \o " deleted successfully.")

\* C37: from the moment delete_task(id) has answered, and with no create
\* since, no entry with that id is in the store, also when an
\* update_task_status call that read the task before the delete performs its
\* reinsert after it.
C37_DeleteIsFinal ==
  \A id \in {TaskId(t) : t \in 0..MaxClock} \cup {UnknownId} :
    DeleteAnswered(id) => RowsWithId(table, id) = <<>>

-----------------------------------------------------------------------------
\* delete_task and delete_document with the ids a client may send

\* ids that hold a quote
QuotedIds == {"x' OR id != 'x", "it's"}

NextDeleteAny ==
  \/ \E name \in DeleteTools, id \in CallerIds \cup QuotedIds : DeleteTool(name, id)
  \/ ToolCatch
  \/ ToolReturn
  \/ Tick
  \/ \E a \in TaskArgs : CreateTask(a)
  \/ \E a \in DocArgs : StoreDocument(a)

SpecDeleteAny == InitDispatch /\ [][NextDeleteAny]_vars

\* C38: delete_task(id) and delete_document(id) remove every entry whose id is
\* id, whatever its type, and leave every entry with another id as it is and
\* where it is.
C38_DeleteById ==
  [][ \A name \in DeleteTools, id \in CallerIds \cup QuotedIds :
        DeleteTool(name, id) =>
          table' = SelectSeq(table, LAMBDA e : e.id # id)
    ]_vars

-----------------------------------------------------------------------------
\* update_task_status on a table whose delete or add may fail

\* one client, one call at a time
NextUpdateFail ==
  \/ Tick
  \/ upd["u1"].pc = "idle" /\ \E a \in TaskArgs : CreateTask(a)
  \/ \E id \in CallerIds, st \in Statuses : UpdateRead("u1", id, st)
  \/ UpdateDelete("u1")
  \/ UpdateDeleteFail("u1")
  \/ UpdateReinsert("u1")
  \/ UpdateAddFail("u1")
  \/ UpdateCatch("u1")
  \/ upd["u1"].pc = "idle" /\ \E id \in CallerIds : DeleteTask(id)

SpecUpdateFail == InitDispatch /\ [][NextUpdateFail]_vars

\* C39: when update_task_status answers with an error after it had found the
\* task (its delete or its reinsert failed), the task is still stored, with
\* every field the call does not set as it was.
C39_UpdateAllOrNothing ==
  [][ UpdateCatch("u1") =>
        LET t == upd["u1"].task
        IN t.id # Undefined =>
             \E i \in 1..Len(table') :
               /\ table'[i].id = upd["u1"].taskId
               /\ table'[i].type = "task"
               /\ \A f \in (DOMAIN t) \ Mutable : table'[i][f] = t[f]
    ]_vars

-----------------------------------------------------------------------------
\* main(): the start of the server

\* main() before the transport is connected; job["main"] follows main(),
\* which after the connect runs indexProject and startWatching as the
\* start_watching case does
Starting == [IdleJob EXCEPT !.pc = "main", !.tool = "main"]

\* the transport is connected: requests reach the CallTool handler
Connected == job["main"].pc \notin {"main", "exited"}

\* the process has been started on a directory with or without an index
InitStartup ==
  /\ clock = 1
  /\ \E exists \in BOOLEAN :
       /\ db = [pc |-> "new", exists |-> exists, found |-> FALSE]
       /\ table = IF exists
                  THEN <<SeedEntry(0), Stored(TaskEntry("A", "x", "high", <<"api">>, "/p", 0))>>
                  ELSE <<>>
  /\ upd = [u \in Updaters |-> IdleUpd]
  /\ disk \in [Files -> {"absent", "ok"}]
  /\ indexedFiles = {}
  /\ watcher = 0
  /\ openW = {}
  /\ events = {}
  /\ cbs = {}
  /\ job = [j \in {"main"} |-> Starting]
  /\ isWatching = FALSE
  /\ call = IdleCall
  /\ OPENAI_API_KEY = FALSE
  /\ ext = [e \in Callers |-> IdleExt]

\* `await store.initialize()` rejects (mkdir, connect, openTable or
\* createTable fails): main() rejects, main().catch(console.error) logs, and
\* the transport is never connected
InitializeReject ==
  /\ db.pc \in {"new", "connecting"}
  /\ job["main"].pc = "main"
  /\ db' = [db EXCEPT !.pc = "failed"]
  /\ job' = [job EXCEPT !["main"].pc = "exited"]
  /\ UNCHANGED <<storeVars, disk, indexedFiles, watcher, openW, events, cbs,
                 isWatching, call, extVars>>

\* a main() that connects the transport without waiting for initialize()
ServerConnectEarly ==
  /\ job["main"].pc = "main"
  /\ \E auto \in BOOLEAN :
       job' = [job EXCEPT !["main"] =
                 IF auto THEN [IdleJob EXCEPT !.pc = "scanning", !.tool = "main"]
                 ELSE IdleJob]
  /\ UNCHANGED <<apiVars, storeVars, disk, indexedFiles, watcher, openW, events, cbs,
                 isWatching>>

\* main() after `await store.initialize()`: server.connect(transport); with
\* PROJECT_PATH set (`auto`) it goes on to indexProject(PROJECT_PATH, false)
ServerConnect ==
  /\ job["main"].pc = "main"
  /\ Initialized(db)
  /\ \E auto \in BOOLEAN :
       job' = [job EXCEPT !["main"] =
                 IF auto THEN [IdleJob EXCEPT !.pc = "scanning", !.tool = "main"]
                 ELSE IdleJob]
  /\ UNCHANGED <<apiVars, storeVars, disk, indexedFiles, watcher, openW, events, cbs,
                 isWatching>>

\* main()'s catch around the auto-index and the auto-watch: it logs
\* 'Failed to auto-index project' and main() returns
StartupCatch ==
  /\ job["main"].pc = "thrown"
  /\ job["main"].tool = "main"
  /\ job' = [job EXCEPT !["main"] = IdleJob]
  /\ UNCHANGED <<apiVars, storeVars, disk, indexedFiles, watcher, openW, events, cbs,
                 isWatching>>

\* a request that reached the handler: its case awaits a store method, which
\* throws when this.table is null and answers otherwise
DispatchStore(op) ==
  /\ Connected
  /\ IF Initialized(db) THEN StoreRead(op) ELSE NotInitialized(op)

NextStartup ==
  \/ InitializeConnect
  \/ InitializeOpen
  \/ InitializeReject
  \/ ServerConnect
  \/ indexProjectConversations("main")
  \/ IndexProjectThrow("main")
  \/ IndexRead("main")
  \/ IndexStore("main")
  \/ StartWatching("main")
  \/ SetWatching("main")
  \/ StartupCatch
  \/ \E op \in ReadOps : DispatchStore(op)
  \/ Settle
  \/ Connected /\ \E a \in TaskArgs : CreateTask(a)
  \/ \E f \in Files : FileAdd(f, "ok")
  \/ \E e \in EventSpace : WatchRead(e)
  \/ \E cb \in CallbackSpace : WatchStore(cb)

SpecStartup == InitStartup /\ [][NextStartup]_vars

====
